---- MODULE Spec2Model ----
(***************************************************************************)
(* A model of onenote_markdown.py: the Graph API client (request retry,    *)
(* pagination, page tree building) and the OneNote-to-Markdown converter   *)
(* (output layout, worker pool, image naming).                             *)
(*                                                                         *)
(* Each part of the program has a specification of its own over the same   *)
(* variables:                                                              *)
(*   SpecTree    get_pages, from the sort to the returned forest           *)
(*   SpecLayout  get_pages -> collect_pages -> process_page (paths, dirs)  *)
(*   SpecPool    download_and_convert's ThreadPoolExecutor and result loop *)
(*   SpecPaging  get_pages' skip/top loop                                  *)
(*   SpecReq     _make_request and get_page_content against the server     *)
(*   SpecImages  process_page/download_image sharing self.image_counter    *)
(* A text is a sequence of one-character strings, a path a sequence of     *)
(* texts.  A page object is known by ref, its place in the listing as it   *)
(* was received (two records with one id are still two objects).           *)
(***************************************************************************)
EXTENDS Integers, Sequences, FiniteSets, TLC

VARIABLES
    \* get_pages (tree building)
    all_pages,      \* the list of page records, as retrieved and then sorted
    page_map,       \* the dict id -> page, as its key/value entries in insertion order
    root_pages,     \* refs of the root pages, in order
    children,       \* ref -> refs of page['children'], in order
    bi,             \* the for loop's position in all_pages
    bpc             \* "sort", "loop", "built", "empty" or "idle"

treeVars == <<all_pages, page_map, root_pages, children, bi, bpc>>

VARIABLES
    \* download_and_convert and process_page
    all_tasks,      \* collect_pages' list of (page, parent_dir), in pre-order
    tstate,         \* task -> "pending", "converting", "written" or "failed"
    md_path,        \* task -> markdown_path, <<>> until process_page computes it
    made,           \* task -> the directories its own mkdir calls named
    dirs,           \* the directories that exist under the output directory
    files,          \* path of a written Markdown file -> the task that wrote it last
    opc             \* "idle", "collect", "run" or "summary"

jobVars == <<all_tasks, tstate, md_path, made, dirs, files, opc>>

VARIABLES
    \* the ThreadPoolExecutor and the loop over the futures
    submitted,      \* number of executor.submit calls made
    started,        \* number of work items the workers have taken off the queue
    takes,          \* task -> number of times a worker took it
    tstep,          \* task -> where its process_page call stands
    terr,           \* task -> the exception its future holds, "none" if none
    collected,      \* number of futures whose result() has returned or raised
    failed_pages    \* the list of (title, error_msg)

poolVars == <<submitted, started, takes, tstep, terr, collected, failed_pages>>

VARIABLES
    \* images of the pages (convert_page_to_markdown, download_image)
    image_counter,  \* self.image_counter, one attribute shared by all workers
    page_imgs,      \* task -> the image URLs of the page's HTML, in order
    img_i,          \* task -> index of the image its loop is at
    img_loaded,     \* task -> the value "self.image_counter += 1" has loaded
    img_name,       \* task -> local_filename of the download in progress
    image_files,    \* local filename in images/ -> the download that wrote it last
    assigned,       \* every download so far with the local filename it was given
    img_el          \* task -> the img elements of its soup, in order

imgVars == <<image_counter, page_imgs, img_i, img_loaded, img_name, image_files,
             assigned, img_el>>

VARIABLES
    \* one call of a client operation (_make_request, get_page_content)
    rop,            \* the operation: "notebooks", "sections", "pages" or "content"
    rpc,            \* "idle", "call", "loop" or "done"
    access_token,   \* self.access_token as the server sees it: "none", "valid", "expired"
    attempt,        \* the for loop's attempt
    retry_delay,    \* the local retry_delay, in seconds
    slept,          \* the arguments of the time.sleep calls, in order
    responses,      \* what each requests.get of the call came back with, in order
    token_results,  \* how each get_access_token of the call ended, in order
    stale,          \* number of tokens of the call that were or became expired
    outcome         \* "none", "returned" or "raised"

reqVars == <<rop, rpc, access_token, attempt, retry_delay, slept, responses,
             token_results, stale, outcome>>

VARIABLES
    \* get_pages (the fetch loop)
    listed,         \* number of pages in the section's listing on the server
    count_hint,     \* whether the responses carry "@odata.count"
    skip,           \* the $skip offset
    page_count,     \* the running count of retrieved pages
    gpc             \* "idle", "fetch", "done" or "raised"

pagingVars == <<listed, count_hint, skip, page_count, gpc>>

VARIABLES
    \* the threads of a section and the credential
    mpc,            \* the main thread: "idle", "request", "acquiring", "pool" or "raised"
    acquiring,      \* the threads that are inside get_access_token
    wpc,            \* worker -> "ready", "sent", "returned", "unauthorized" or "error"
    whdr            \* worker -> the token its get_page_content put in the header

refreshVars == <<mpc, acquiring, wpc, whdr>>

VARIABLES
    \* one use of a sanitizer
    san_fn,         \* "sanitize_filename", "sanitize_image_filename" or "none"
    san_in,         \* the text given
    san_out,        \* the result
    san_again,      \* the result of the same function on the result
    san_pc          \* number of applications made

sanVars == <<san_fn, san_in, san_out, san_again, san_pc>>

VARIABLES
    \* one clean-up of a page's rendered Markdown (convert_page_to_markdown)
    md_in,          \* the text html2text returned
    md_out,         \* the text convert_page_to_markdown returns
    md_again,       \* the clean-up of md_out
    md_pc           \* number of clean-ups made; -1 outside

mdVars == <<md_in, md_out, md_again, md_pc>>

VARIABLES
    \* one img element's requests (convert_page_to_markdown, download_image)
    h_url,          \* img_url as its host, path and query texts
    h_pc,           \* "decide", "probe", "get" or "done"; "idle" outside
    h_headers,      \* the headers argument: "unset", "none" or "bearer"
    h_sent,         \* the requests made, each with its method and whether it
                    \* carried the Authorization header
    h_probe,        \* how the HEAD ended: "none" (not made), "image", "other" or "raised"
    h_ext           \* where ext came from: "unset", "url", "probe" or "default"

hdrVars == <<h_url, h_pc, h_headers, h_sent, h_probe, h_ext>>

VARIABLES
    \* one run of the download command
    run_pc,         \* "idle", "mkdir", "notebooks", "sections", "section",
                    \* "pages", "batch", "complete" or "exit"
    nb_found,       \* whether the account has a notebook of the given name
    sec_names,      \* displayName of the notebook's sections, in order
    section_arg,    \* the --section option, "none" if not given
    sec_todo,       \* the sections list after the filter
    sec_i,          \* the for loop's position in it
    listed_pages,   \* number of pages get_pages returned for the current section
    dispatched,     \* per section taken up: number of page tasks submitted
    failed_count,   \* per section taken up: number of its tasks that failed
    fatal,          \* the cause of the exception that left download_and_convert
    exit_status     \* "none", "success" or "aborted"

runVars == <<run_pc, nb_found, sec_names, section_arg, sec_todo, sec_i,
             listed_pages, dispatched, failed_count, fatal, exit_status>>

auxVars == <<refreshVars, sanVars, hdrVars, runVars, mdVars>>

\* The variables outside each of these groups that the actions of the
\* group's specification leave alone.
restOfRefresh == <<treeVars, jobVars, poolVars, imgVars, pagingVars, sanVars, hdrVars, runVars, mdVars>>
restOfSan == <<treeVars, jobVars, poolVars, imgVars, reqVars, pagingVars, refreshVars, hdrVars, runVars, mdVars>>
restOfHdr == <<treeVars, jobVars, poolVars, imgVars, pagingVars, refreshVars, sanVars, runVars, mdVars>>
restOfMd == <<treeVars, jobVars, poolVars, imgVars, reqVars, pagingVars, refreshVars, sanVars, hdrVars, runVars>>
restOfRun == <<treeVars, jobVars, poolVars, imgVars, reqVars, pagingVars, refreshVars, sanVars, hdrVars, mdVars>>

clientVars == <<reqVars, pagingVars, auxVars>>

vars == <<treeVars, jobVars, poolVars, imgVars, clientVars>>

-----------------------------------------------------------------------------
(* Bounds of the model *)

MaxPages == 3
MaxLevel == 2
MaxTasks == 6

PageIds == {1, 2}
Orders == {0, 1}
Levels == 0 .. MaxLevel

-----------------------------------------------------------------------------
(* Sequences *)

Range(s) == {s[i] : i \in 1 .. Len(s)}

Last(s) == s[Len(s)]

-----------------------------------------------------------------------------
(* get_pages: sort and tree building *)

NoPage == 0

\* The key of all_pages.sort: (order, level), compared as tuples.
SortKeyLE(a, b) ==
    \/ a.order < b.order
    \/ a.order = b.order /\ a.level <= b.level

\* list.sort is stable: x goes after the last element whose key is <= x's.
RECURSIVE InsertSorted(_, _)
InsertSorted(s, x) ==
    IF s = <<>> THEN <<x>>
    ELSE IF SortKeyLE(Last(s), x) THEN Append(s, x)
    ELSE Append(InsertSorted(SubSeq(s, 1, Len(s) - 1), x), Last(s))

RECURSIVE SortPagesOf(_)
SortPagesOf(s) ==
    IF s = <<>> THEN <<>>
    ELSE InsertSorted(SortPagesOf(SubSeq(s, 1, Len(s) - 1)), Last(s))

\* The page object of a ref among the records pages.
PageOf(pages, ref) == CHOOSE p \in Range(pages) : p.ref = ref

\* page_map[page_id] = page: a new key is appended, an old key keeps its
\* place in the dict's order and takes the new value.
MapPut(pm, key, ref) ==
    IF \E j \in 1 .. Len(pm) : pm[j].key = key
    THEN [j \in 1 .. Len(pm) |->
             IF pm[j].key = key THEN [key |-> key, ref |-> ref] ELSE pm[j]]
    ELSE Append(pm, [key |-> key, ref |-> ref])

\* A scan that takes the most recent page of any smaller level.
FindParentShallower(pm, pages, level) ==
    LET hits == {j \in 1 .. Len(pm) : PageOf(pages, pm[j].ref).level < level}
    IN  IF hits = {} THEN NoPage
        ELSE pm[CHOOSE j \in hits : \A k \in hits : k <= j].ref

\* for prev_page in reversed(list(page_map.values())): the first one whose
\* level is level - 1, or None.
FindParent(pm, pages, level) ==
    LET hits == {j \in 1 .. Len(pm) : PageOf(pages, pm[j].ref).level = level - 1}
    IN  IF hits = {} THEN NoPage
        ELSE pm[CHOOSE j \in hits : \A k \in hits : k <= j].ref

\* A builder that drops a page it finds no parent for.
PlaceOrphanDropped(roots, ref) == roots

\* The else branch of "if parent": the page joins root_pages.
PlaceOrphan(roots, ref) == Append(roots, ref)

\* One iteration of "for page in all_pages" on the builder's state st.
BuildStep(st, pages, page) ==
    LET pm == MapPut(st.page_map, page.id, page.ref)
        ch == [st.children EXCEPT ![page.ref] = <<>>]
        parent == FindParent(pm, pages, page.level)
    IN  IF page.level = 0
        THEN [page_map |-> pm, children |-> ch,
              root_pages |-> Append(st.root_pages, page.ref)]
        ELSE IF parent # NoPage
        THEN [page_map |-> pm,
              children |-> [ch EXCEPT ![parent] = Append(@, page.ref)],
              root_pages |-> st.root_pages]
        ELSE [page_map |-> pm, children |-> ch,
              root_pages |-> PlaceOrphan(st.root_pages, page.ref)]

EmptyBuild(n) ==
    [page_map |-> <<>>, root_pages |-> <<>>, children |-> [r \in 1 .. n |-> <<>>]]

\* The builder's state after the first k pages of the sorted list.
RECURSIVE BuildUpTo(_, _)
BuildUpTo(pages, k) ==
    IF k = 0 THEN EmptyBuild(Len(pages))
    ELSE BuildStep(BuildUpTo(pages, k - 1), pages, pages[k])

\* Listings of the tree specification: any ids, levels and orders.
TreeRecords ==
    [id : PageIds, level : Levels, order : Orders, title : {<<"a">>}]

WithRefs(s) ==
    [i \in 1 .. Len(s) |->
        [ref |-> i, id |-> s[i].id, title |-> s[i].title,
         level |-> s[i].level, order |-> s[i].order]]

TreeIdle ==
    /\ all_pages = <<>>
    /\ page_map = <<>>
    /\ root_pages = <<>>
    /\ children = <<>>
    /\ bi = 0
    /\ bpc = "idle"

\* The state of get_pages when the fetch loop has ended with the pages ps.
TreeStart(ps) ==
    /\ all_pages = WithRefs(ps)
    /\ page_map = <<>>
    /\ root_pages = <<>>
    /\ children = [r \in 1 .. Len(ps) |-> <<>>]
    /\ bi = 1
    /\ bpc = "sort"

\* if not all_pages: return []
ReturnEmpty ==
    /\ bpc = "sort"
    /\ all_pages = <<>>
    /\ bpc' = "empty"
    /\ UNCHANGED <<all_pages, page_map, root_pages, children, bi>>
    /\ UNCHANGED <<jobVars, poolVars, imgVars>>
    /\ UNCHANGED clientVars

\* all_pages.sort(key=lambda x: (order, level)); page_map = {}; root_pages = []
SortPages ==
    /\ bpc = "sort"
    /\ all_pages # <<>>
    /\ all_pages' = SortPagesOf(all_pages)
    /\ bpc' = "loop"
    /\ UNCHANGED <<page_map, root_pages, children, bi>>
    /\ UNCHANGED <<jobVars, poolVars, imgVars>>
    /\ UNCHANGED clientVars

\* One iteration of the for loop.
ProcessPage ==
    /\ bpc = "loop"
    /\ bi <= Len(all_pages)
    /\ LET st == BuildStep([page_map |-> page_map, root_pages |-> root_pages,
                            children |-> children], all_pages, all_pages[bi])
       IN  /\ page_map' = st.page_map
           /\ root_pages' = st.root_pages
           /\ children' = st.children
    /\ bi' = bi + 1
    /\ UNCHANGED <<all_pages, bpc>>
    /\ UNCHANGED <<jobVars, poolVars, imgVars>>
    /\ UNCHANGED clientVars

\* return root_pages
ReturnRoots ==
    /\ bpc = "loop"
    /\ bi > Len(all_pages)
    /\ bpc' = "built"
    /\ UNCHANGED <<all_pages, page_map, root_pages, children, bi>>
    /\ UNCHANGED <<jobVars, poolVars, imgVars>>
    /\ UNCHANGED clientVars

TreeNext ==
    \/ ReturnEmpty
    \/ SortPages
    \/ ProcessPage
    \/ ReturnRoots

JobIdle ==
    /\ all_tasks = <<>>
    /\ tstate = <<>>
    /\ md_path = <<>>
    /\ made = <<>>
    /\ dirs = {}
    /\ files = <<>>
    /\ opc = "idle"

PoolIdle ==
    /\ submitted = 0
    /\ started = 0
    /\ takes = <<>>
    /\ tstep = <<>>
    /\ terr = <<>>
    /\ collected = 0
    /\ failed_pages = <<>>

ImagesIdle ==
    /\ image_counter = 0
    /\ page_imgs = <<>>
    /\ img_i = <<>>
    /\ img_loaded = <<>>
    /\ img_name = <<>>
    /\ image_files = <<>>
    /\ assigned = {}
    /\ img_el = <<>>

ReqIdle ==
    /\ rop = "none"
    /\ rpc = "idle"
    /\ access_token = "valid"
    /\ attempt = 0
    /\ retry_delay = 0
    /\ slept = <<>>
    /\ responses = <<>>
    /\ token_results = <<>>
    /\ stale = 0
    /\ outcome = "none"

PagingIdle ==
    /\ listed = 0
    /\ count_hint = FALSE
    /\ skip = 0
    /\ page_count = 0
    /\ gpc = "idle"

RefreshIdle ==
    /\ mpc = "idle"
    /\ acquiring = {}
    /\ wpc = <<>>
    /\ whdr = <<>>

SanIdle ==
    /\ san_fn = "none"
    /\ san_in = <<>>
    /\ san_out = <<>>
    /\ san_again = <<>>
    /\ san_pc = 0

HdrIdle ==
    /\ h_url = <<>>
    /\ h_pc = "idle"
    /\ h_headers = "unset"
    /\ h_sent = <<>>
    /\ h_probe = "none"
    /\ h_ext = "unset"

RunIdle ==
    /\ run_pc = "idle"
    /\ nb_found = FALSE
    /\ sec_names = <<>>
    /\ section_arg = "none"
    /\ sec_todo = <<>>
    /\ sec_i = 0
    /\ listed_pages = 0
    /\ dispatched = <<>>
    /\ failed_count = <<>>
    /\ fatal = "none"
    /\ exit_status = "none"

MdIdle ==
    /\ md_in = <<>>
    /\ md_out = <<>>
    /\ md_again = <<>>
    /\ md_pc = -1

AuxIdle == RefreshIdle /\ SanIdle /\ HdrIdle /\ RunIdle /\ MdIdle

ClientIdle == ReqIdle /\ PagingIdle /\ AuxIdle

InitTree ==
    /\ \E n \in 0 .. MaxPages : \E ps \in [1 .. n -> TreeRecords] : TreeStart(ps)
    /\ JobIdle
    /\ PoolIdle
    /\ ImagesIdle
    /\ ClientIdle

SpecTree == InitTree /\ [][TreeNext]_vars

-----------------------------------------------------------------------------
(* Claims about the tree builder (SpecTree) *)

Building == bpc \in {"loop", "built"}

\* Positions of all_pages the for loop has processed.
Done == 1 .. (bi - 1)

LevelAt(k) == all_pages[k].level

RefAt(k) == all_pages[k].ref

\* The position of the most recently processed page before k whose level is
\* one less than k's, 0 when there is none.
RecentParent(k) ==
    LET cands == {j \in 1 .. (k - 1) : LevelAt(j) = LevelAt(k) - 1}
    IN  IF cands = {} THEN 0 ELSE CHOOSE j \in cands : \A i \in cands : i <= j

\* The processed pages that satisfy Test, as refs in processing order.
RefsWhere(Test(_)) ==
    LET pos == SelectSeq([k \in 1 .. (bi - 1) |-> k], Test)
    IN  [n \in 1 .. Len(pos) |-> RefAt(pos[n])]

IsChildOf(ref, parent) == \E n \in 1 .. Len(children[parent]) : children[parent][n] = ref

IsRoot(ref) == \E n \in 1 .. Len(root_pages) : root_pages[n] = ref

\* C3: after the sort by (order, level), every level-0 page is a root and
\* every page of level L > 0 is the last child of the most recently processed
\* page of level L-1; roots and children are in processing order.
C3_TreeBuilding ==
    Building =>
        /\ LET IsTop(k) == LevelAt(k) = 0
               IsRootRef(r) == PageOf(all_pages, r).level = 0
           IN  SelectSeq(root_pages, IsRootRef) = RefsWhere(IsTop)
        /\ \A p \in Done :
              LET IsMine(k) == LevelAt(k) > 0 /\ RecentParent(k) = p
              IN  children[RefAt(p)] = RefsWhere(IsMine)

\* C4: a page of level L > 0 with no previously processed page of level L-1
\* is appended to the roots, and every processed page is in the forest.
C4_OrphanTolerance ==
    Building =>
        /\ \A k \in Done :
              (LevelAt(k) > 0 /\ RecentParent(k) = 0) => IsRoot(RefAt(k))
        /\ \A k \in Done :
              IsRoot(RefAt(k)) \/ \E p \in Done : IsChildOf(RefAt(k), RefAt(p))

C4_Witness ==
    /\ bpc = "built"
    /\ \E k \in Done : LevelAt(k) = 2 /\ RecentParent(k) = 0 /\ IsRoot(RefAt(k))
    /\ \E k \in Done : LevelAt(k) = 1 /\ RecentParent(k) # 0

\* C5 as stated: every root has level 0 and every child's level is its
\* parent's level + 1.
C5_LevelInvariant_Original ==
    bpc = "built" =>
        /\ \A k \in Done : IsRoot(RefAt(k)) => LevelAt(k) = 0
        /\ \A p, k \in Done :
              IsChildOf(RefAt(k), RefAt(p)) => LevelAt(k) = LevelAt(p) + 1

\* The reverse scan found no parent when the page at position k was processed.
WasOrphan(k) ==
    /\ LevelAt(k) > 0
    /\ FindParent(BuildUpTo(all_pages, k).page_map, all_pages, LevelAt(k)) = NoPage

\* C5 (amended): every child's level is its parent's level + 1, and a root
\* has level 0 unless the scan found it no parent, in which case it is a root
\* that keeps its listed level.
C5_LevelInvariant ==
    Building =>
        /\ \A p, k \in Done :
              IsChildOf(RefAt(k), RefAt(p)) => LevelAt(k) = LevelAt(p) + 1
        /\ \A k \in Done :
              IsRoot(RefAt(k)) <=> (LevelAt(k) = 0 \/ WasOrphan(k))

C5_Witness ==
    /\ bpc = "built"
    /\ \E k \in Done : IsRoot(RefAt(k)) /\ LevelAt(k) > 0
    /\ \E p, k \in Done : IsChildOf(RefAt(k), RefAt(p)) /\ LevelAt(p) = 1

\* The same loop with the most recently processed page of each level kept in
\* recent (level -> ref, NoPage where there is none) in place of the scan.
RECURSIVE RecentBuildUpTo(_, _)
RecentBuildUpTo(pages, k) ==
    IF k = 0
    THEN [recent |-> [l \in Levels |-> NoPage], root_pages |-> <<>>,
          children |-> [r \in 1 .. Len(pages) |-> <<>>]]
    ELSE LET st == RecentBuildUpTo(pages, k - 1)
             page == pages[k]
             parent == IF page.level = 0 THEN NoPage ELSE st.recent[page.level - 1]
         IN  [recent |-> [st.recent EXCEPT ![page.level] = page.ref],
              root_pages |-> IF parent = NoPage THEN Append(st.root_pages, page.ref)
                             ELSE st.root_pages,
              children |-> IF parent = NoPage THEN st.children
                           ELSE [st.children EXCEPT ![parent] = Append(@, page.ref)]]

\* C24: for every listing, ids repeated or not, the forest of the reverse
\* scan over page_map is the forest obtained by keeping the most recently
\* processed page of each level, demoted pages included.
C24_ParentLookupEquivalence ==
    Building =>
        LET other == RecentBuildUpTo(all_pages, bi - 1)
        IN  /\ root_pages = other.root_pages
            /\ children = other.children

-----------------------------------------------------------------------------
(* Texts and the two filename sanitizers *)

Uppers == <<"A", "B", "C", "D", "E", "F", "G", "H", "I", "J", "K", "L", "M",
            "N", "O", "P", "Q", "R", "S", "T", "U", "V", "W", "X", "Y", "Z">>

Lowers == <<"a", "b", "c", "d", "e", "f", "g", "h", "i", "j", "k", "l", "m",
            "n", "o", "p", "q", "r", "s", "t", "u", "v", "w", "x", "y", "z">>

Digits == {"0", "1", "2", "3", "4", "5", "6", "7", "8", "9"}

\* The characters of [\x00-\x1f\x7f-\x9f] that texts of the model use.
ControlChars == {"\n", "\t"}

Untitled == <<"u", "n", "t", "i", "t", "l", "e", "d">>

\* filename.replace('/', '-').replace('\\', '-')
ReplaceSlashes(s) ==
    [i \in 1 .. Len(s) |-> IF s[i] \in {"/", "\\"} THEN "-" ELSE s[i]]

\* A sanitizer that keeps the control characters.
RemoveControlNone(s) == s

\* re.sub(r'[\x00-\x1f\x7f-\x9f]', '', filename)
RemoveControl(s) ==
    LET Keep(c) == c \notin ControlChars
    IN  SelectSeq(s, Keep)

\* re.sub(c + '+', c, filename): every run of c becomes one c.
RECURSIVE CollapseRuns(_, _)
CollapseRuns(s, c) ==
    IF Len(s) < 2 THEN s
    ELSE IF s[1] = c /\ s[2] = c THEN CollapseRuns(Tail(s), c)
    ELSE <<s[1]>> \o CollapseRuns(Tail(s), c)

\* str.strip(chars)
RECURSIVE StripLeft(_, _)
StripLeft(s, chars) ==
    IF s # <<>> /\ Head(s) \in chars THEN StripLeft(Tail(s), chars) ELSE s

RECURSIVE StripRight(_, _)
StripRight(s, chars) ==
    IF s # <<>> /\ Last(s) \in chars
    THEN StripRight(SubSeq(s, 1, Len(s) - 1), chars) ELSE s

Strip(s, chars) == StripRight(StripLeft(s, chars), chars)

\* str.lower, on the letters A-Z.
LowerText(s) ==
    [i \in 1 .. Len(s) |->
        IF \E k \in 1 .. Len(Uppers) : Uppers[k] = s[i]
        THEN Lowers[CHOOSE k \in 1 .. Len(Uppers) : Uppers[k] = s[i]] ELSE s[i]]

\* re.sub(r'[^a-z0-9.-]', '-', filename)
DashUnsafe(s) ==
    [i \in 1 .. Len(s) |->
        IF s[i] \in Range(Lowers) \cup Digits \cup {".", "-"} THEN s[i] ELSE "-"]

sanitize_filename(filename) ==
    IF filename = <<>> THEN Untitled
    ELSE LET replaced == RemoveControl(ReplaceSlashes(filename))
             collapsed == CollapseRuns(CollapseRuns(replaced, "-"), " ")
             trimmed == Strip(collapsed, {" ", ".", "-"})
         IN  IF trimmed = <<>> THEN Untitled ELSE trimmed

sanitize_image_filename(filename) ==
    IF filename = <<>> THEN Untitled
    ELSE LET dashed == DashUnsafe(LowerText(ReplaceSlashes(filename)))
             collapsed == CollapseRuns(RemoveControl(dashed), "-")
             trimmed == Strip(collapsed, {".", "-"})
         IN  IF trimmed = <<>> THEN Untitled ELSE trimmed

-----------------------------------------------------------------------------
(* Paths, collect_pages and process_page's layout *)

\* section_output_path = base_output_path / section_name
OutputPath == << <<"o", "u", "t">>, <<"s", "e", "c">> >>

\* images_dir = output_path / "images"
ImagesDir == Append(OutputPath, <<"i", "m", "a", "g", "e", "s">>)

\* parent_dir=None
NoDir == <<>>

\* Path.parent
ParentPath(path) == SubSeq(path, 1, Len(path) - 1)

\* f"{sanitized_title}.md"
MdName(sanitized_title) == sanitized_title \o <<".", "m", "d">>

\* Path.mkdir(parents=True, exist_ok=True)
MkdirP(ds, d) == ds \cup {SubSeq(d, 1, k) : k \in 1 .. Len(d)}

\* A layout where a nested page with children gets a directory of its own.
ChildrenDirNested(title, parent_dir) ==
    IF parent_dir = NoDir
    THEN Append(OutputPath, sanitize_filename(title))
    ELSE Append(parent_dir, sanitize_filename(title))

\* collect_pages: the parent_dir handed to the children of a page.
ChildrenDir(title, parent_dir) ==
    IF parent_dir = NoDir
    THEN Append(OutputPath, sanitize_filename(title))
    ELSE parent_dir

\* collect_pages(page, parent_dir): the page, then its children's subtrees.
RECURSIVE CollectPage(_, _, _, _)
RECURSIVE CollectChildren(_, _, _, _)
CollectPage(pages, ch, ref, parent_dir) ==
    LET page == PageOf(pages, ref)
        task == [ref |-> ref, title |-> page.title,
                 has_children |-> ch[ref] # <<>>, parent_dir |-> parent_dir]
    IN  <<task>> \o CollectChildren(pages, ch, ch[ref],
                                    ChildrenDir(page.title, parent_dir))

CollectChildren(pages, ch, refs, page_dir) ==
    IF refs = <<>> THEN <<>>
    ELSE CollectPage(pages, ch, Head(refs), page_dir)
             \o CollectChildren(pages, ch, Tail(refs), page_dir)

\* for page in pages: collect_pages(page)
CollectAll(pages, ch, roots) == CollectChildren(pages, ch, roots, NoDir)

\* process_page: page_dir, whether it is created, markdown_path, is_child_page.
PagePlan(task) ==
    LET sanitized_title == sanitize_filename(task.title)
    IN  IF task.parent_dir # NoDir
        THEN [page_dir |-> task.parent_dir, mkdir |-> TRUE,
              markdown_path |-> Append(task.parent_dir, MdName(sanitized_title)),
              is_child_page |-> TRUE]
        ELSE IF task.has_children
        THEN [page_dir |-> Append(OutputPath, sanitized_title), mkdir |-> TRUE,
              markdown_path |-> Append(OutputPath, MdName(sanitized_title)),
              is_child_page |-> FALSE]
        ELSE [page_dir |-> OutputPath, mkdir |-> FALSE,
              markdown_path |-> Append(OutputPath, MdName(sanitized_title)),
              is_child_page |-> FALSE]

\* The directories process_page names in mkdir calls before it fetches the
\* page: page_dir (when it makes one) and images_dir.
DirsNamedAtStart(task) ==
    (IF PagePlan(task).mkdir THEN {PagePlan(task).page_dir} ELSE {}) \cup {ImagesDir}

\* ... and before it writes: markdown_path.parent.
DirsNamedAtWrite(task) == {ParentPath(PagePlan(task).markdown_path)}

MkdirAll(ds, named) ==
    ds \cup UNION {MkdirP({}, d) : d \in named}

\* with open(markdown_path, 'w') as f: ...
WriteFile(fs, path, t) ==
    [p \in DOMAIN fs \cup {path} |-> IF p = path THEN t ELSE fs[p]]

\* A count that leaves the children out.
CountPageAlone(ch, ref) == 1

\* count_pages(page): the page and, recursively, its children.
RECURSIVE CountPage(_, _)
RECURSIVE CountPagesOf(_, _)
CountPage(ch, ref) == 1 + CountPagesOf(ch, ch[ref])

CountPagesOf(ch, refs) ==
    IF refs = <<>> THEN 0
    ELSE CountPage(ch, Head(refs)) + CountPagesOf(ch, Tail(refs))

\* total_pages = sum(count_pages(page) for page in pages)
RECURSIVE TotalPages(_, _)
TotalPages(ch, roots) ==
    IF roots = <<>> THEN 0
    ELSE CountPage(ch, Head(roots)) + TotalPages(ch, Tail(roots))

Tasks == 1 .. Len(all_tasks)

\* download_and_convert, from the section's directories to the task list.
CollectPages ==
    /\ opc = "collect"
    /\ bpc \in {"built", "empty"}
    /\ all_tasks' = CollectAll(all_pages, children, root_pages)
    /\ tstate' = [t \in 1 .. Len(all_tasks') |-> "pending"]
    /\ md_path' = [t \in 1 .. Len(all_tasks') |-> <<>>]
    /\ made' = [t \in 1 .. Len(all_tasks') |-> {}]
    /\ dirs' = MkdirAll({}, {OutputPath, ImagesDir})
    /\ files' = <<>>
    /\ opc' = "run"
    /\ UNCHANGED <<treeVars, poolVars, imgVars>>
    /\ UNCHANGED clientVars

\* process_page(page, section_output_path, parent_dir) as one step, for the
\* next task of the list; the page fetch or the file write may raise.
RunPage ==
    /\ opc = "run"
    /\ \E t \in Tasks :
        /\ tstate[t] = "pending"
        /\ \A u \in 1 .. (t - 1) : tstate[u] # "pending"
        /\ LET task == all_tasks[t]
               plan == PagePlan(task)
           IN  /\ md_path' = [md_path EXCEPT ![t] = plan.markdown_path]
               /\ \/ /\ tstate' = [tstate EXCEPT ![t] = "written"]
                     /\ made' = [made EXCEPT ![t] =
                                    DirsNamedAtStart(task) \cup DirsNamedAtWrite(task)]
                     /\ dirs' = MkdirAll(dirs, DirsNamedAtStart(task)
                                                 \cup DirsNamedAtWrite(task))
                     /\ files' = WriteFile(files, plan.markdown_path, t)
                  \/ /\ tstate' = [tstate EXCEPT ![t] = "failed"]
                     /\ made' = [made EXCEPT ![t] = DirsNamedAtStart(task)]
                     /\ dirs' = MkdirAll(dirs, DirsNamedAtStart(task))
                     /\ UNCHANGED files
    /\ UNCHANGED <<all_tasks, opc>>
    /\ UNCHANGED <<treeVars, poolVars, imgVars>>
    /\ UNCHANGED clientVars

\* The loop over the futures has ended: the summary is printed.
LayoutSummary ==
    /\ opc = "run"
    /\ \A t \in Tasks : tstate[t] \in {"written", "failed"}
    /\ opc' = "summary"
    /\ UNCHANGED <<all_tasks, tstate, md_path, made, dirs, files>>
    /\ UNCHANGED <<treeVars, poolVars, imgVars>>
    /\ UNCHANGED clientVars

LayoutTitles == {<<"P">>, <<"N", "/">>}

\* Listings of the layout specification: pages with ids and orders of their
\* own, in listing order, of any level and title.
LayoutListing(lt) ==
    [i \in 1 .. Len(lt) |->
        [id |-> i, order |-> i, level |-> lt[i].level, title |-> lt[i].title]]

InitLayout ==
    /\ \E n \in 0 .. MaxPages :
          \E lt \in [1 .. n -> [level : Levels, title : LayoutTitles]] :
              TreeStart(LayoutListing(lt))
    /\ all_tasks = <<>>
    /\ tstate = <<>>
    /\ md_path = <<>>
    /\ made = <<>>
    /\ dirs = {}
    /\ files = <<>>
    /\ opc = "collect"
    /\ PoolIdle
    /\ ImagesIdle
    /\ ClientIdle

LayoutNext ==
    \/ TreeNext
    \/ CollectPages
    \/ RunPage
    \/ LayoutSummary

SpecLayout == InitLayout /\ [][LayoutNext]_vars

-----------------------------------------------------------------------------
(* Claims about the directory layout (SpecLayout) *)

Terminal(t) == tstate[t] \in {"written", "failed"}

\* The ref of the page whose children list holds ref, 0 for a root.
ParentRefOf(ref) ==
    IF \E p \in DOMAIN children : IsChildOf(ref, p)
    THEN CHOOSE p \in DOMAIN children : IsChildOf(ref, p)
    ELSE 0

RECURSIVE TopAncestor(_)
TopAncestor(ref) ==
    IF ParentRefOf(ref) = 0 THEN ref ELSE TopAncestor(ParentRefOf(ref))

SanTitleOf(ref) == sanitize_filename(PageOf(all_pages, ref).title)

\* The directory a page with children owns when every page with children
\* owns one, nested in its parent's.
RECURSIVE NestedHome(_)
NestedHome(ref) ==
    IF ParentRefOf(ref) = 0 THEN OutputPath
    ELSE Append(NestedHome(ParentRefOf(ref)), SanTitleOf(ParentRefOf(ref)))

\* C6 as stated, for every page at every depth: a page with children owns
\* the directory named after its sanitized title, its Markdown file is a
\* sibling of that directory, its children's files are inside it; a childless
\* page's file is directly in its parent's directory and its task makes no
\* directory named after it.
C6_DirectoryLayout_Original ==
    opc \in {"run", "summary"} =>
        \A t \in Tasks : Terminal(t) =>
            LET ref == all_tasks[t].ref
                own == Append(NestedHome(ref), SanTitleOf(ref))
            IN  /\ md_path[t] = Append(NestedHome(ref), MdName(SanTitleOf(ref)))
                /\ all_tasks[t].has_children => own \in dirs
                /\ ~all_tasks[t].has_children => own \notin made[t]

\* The directory of the top-level page a page descends from.
TopDir(ref) == Append(OutputPath, SanTitleOf(TopAncestor(ref)))

\* C6 (amended): a top-level page with children owns the directory named
\* after its sanitized title and its Markdown file is a sibling of it; the
\* files of all its descendants, at any depth, are directly in that one
\* directory; a nested page never gets a directory of its own; a childless
\* top-level page's file is directly in the section directory and its task
\* makes no directory but images/.
C6_DirectoryLayout ==
    opc \in {"run", "summary"} =>
        \A t \in Tasks : Terminal(t) =>
            LET ref == all_tasks[t].ref
                top == ParentRefOf(ref) = 0
                home == IF top THEN OutputPath ELSE TopDir(ref)
            IN  /\ md_path[t] = Append(home, MdName(SanTitleOf(ref)))
                /\ (top /\ all_tasks[t].has_children) => TopDir(ref) \in dirs
                /\ made[t] \subseteq
                      {ImagesDir, OutputPath} \cup
                      (IF top /\ ~all_tasks[t].has_children THEN {} ELSE {TopDir(ref)})

\* C18: any two distinct page tasks of a section have distinct Markdown
\* file paths.
C18_DisjointTargets ==
    \A t, u \in Tasks :
        t # u => PagePlan(all_tasks[t]).markdown_path # PagePlan(all_tasks[u]).markdown_path

C6_Witness ==
    /\ opc = "summary"
    /\ \E t, u, v \in Tasks :
          /\ ParentRefOf(all_tasks[t].ref) = 0 /\ all_tasks[t].has_children
          /\ ParentRefOf(all_tasks[u].ref) = all_tasks[t].ref
          /\ ParentRefOf(all_tasks[v].ref) = all_tasks[u].ref
          /\ \A x \in {t, u, v} : tstate[x] = "written"
          /\ ParentPath(md_path[t]) = OutputPath
          /\ ParentPath(md_path[u]) = TopDir(all_tasks[t].ref)
          /\ ParentPath(md_path[v]) = TopDir(all_tasks[t].ref)
          /\ all_tasks[t].title # all_tasks[u].title

-----------------------------------------------------------------------------
(* download_and_convert: the worker pool and the loop over the futures *)

\* ThreadPoolExecutor(max_workers=5)
max_workers == 5

Running == Cardinality({t \in Tasks : tstate[t] = "converting"})

\* A pool whose failed task goes back to waiting instead of ending.
RaisedStateRequeued == "pending"

\* The state of a task whose process_page raised: its future holds the
\* exception and nothing runs the task again.
RaisedState == "failed"

\* future.result() returns or raises once the task has ended.
ResultReady(t) == Terminal(t)

\* A result loop that records only the first failure.
RecordFailureFirstOnly(failed, title, error_msg) ==
    IF failed = <<>> THEN <<(<<title, error_msg>>)>> ELSE failed

\* failed_pages.append((page['title'], error_msg))
RecordFailure(failed, title, error_msg) == Append(failed, <<title, error_msg>>)

\* open(markdown_path, 'w') needs the file's directory.
CanOpen(ds, path) == ParentPath(path) \in ds

\* An img element as OneNote gives it: the URL in data-fullres-src and src,
\* with the data-src-type and data-fullres-src-type attributes.
OriginalImg(img_url) == [local |-> FALSE, up |-> FALSE, src |-> img_url, data_attrs |-> TRUE]

\* A rewrite that never puts "../" before the path.
RewrittenImgPlain(is_child_page, local_filename) ==
    [local |-> TRUE, up |-> FALSE, src |-> local_filename, data_attrs |-> FALSE]

\* img['src'] = local_path ("../" before it for a child page), the data
\* attributes deleted.
RewrittenImg(is_child_page, local_filename) ==
    [local |-> TRUE, up |-> is_child_page, src |-> local_filename, data_attrs |-> FALSE]

\* The state of download_and_convert for one section when the executor is
\* created: get_pages has returned the forest of the listing ps, the tasks
\* are collected, imgs gives each task's page content.
PoolStart(ps, imgs) ==
    LET sorted == SortPagesOf(WithRefs(ps))
        built == BuildUpTo(sorted, Len(sorted))
        collected_tasks == CollectAll(sorted, built.children, built.root_pages)
        n == Len(collected_tasks)
    IN  /\ all_pages = sorted
        /\ page_map = built.page_map
        /\ root_pages = built.root_pages
        /\ children = built.children
        /\ bi = Len(sorted) + 1
        /\ bpc = IF ps = <<>> THEN "empty" ELSE "built"
        /\ all_tasks = collected_tasks
        /\ tstate = [t \in 1 .. n |-> "pending"]
        /\ md_path = [t \in 1 .. n |-> <<>>]
        /\ made = [t \in 1 .. n |-> {}]
        /\ dirs = MkdirAll({}, {OutputPath, ImagesDir})
        /\ files = <<>>
        /\ opc = "pool"
        /\ submitted = 0
        /\ started = 0
        /\ takes = [t \in 1 .. n |-> 0]
        /\ tstep = [t \in 1 .. n |-> "queued"]
        /\ terr = [t \in 1 .. n |-> "none"]
        /\ collected = 0
        /\ failed_pages = <<>>
        /\ image_counter = 0
        /\ page_imgs = [t \in 1 .. n |-> imgs[all_tasks[t].ref]]
        /\ img_i = [t \in 1 .. n |-> 0]
        /\ img_loaded = [t \in 1 .. n |-> 0]
        /\ img_name = [t \in 1 .. n |-> <<>>]
        /\ image_files = <<>>
        /\ assigned = {}
        /\ img_el = [t \in 1 .. n |->
                        [i \in 1 .. Len(imgs[all_tasks[t].ref]) |->
                            OriginalImg(imgs[all_tasks[t].ref][i])]]
        /\ ClientIdle

\* future = executor.submit(self.process_page, page, section_output_path, parent_dir)
CanSubmit == opc = "pool" /\ submitted < Len(all_tasks)

Submit ==
    /\ CanSubmit
    /\ submitted' = submitted + 1
    /\ UNCHANGED <<started, takes, tstep, terr, collected, failed_pages>>
    /\ UNCHANGED <<treeVars, jobVars, imgVars>>
    /\ UNCHANGED clientVars

\* A pool that starts a thread for every submitted work item.
CanStartTaskUnbounded == opc = "pool" /\ started < submitted

\* A worker thread takes the next work item and runs process_page up to the
\* page fetch: the paths, the mkdir calls, self.image_counter = 0.
CanStartTask == opc = "pool" /\ started < submitted /\ Running < max_workers

StartTask ==
    /\ CanStartTask
    /\ LET t == started + 1
           task == all_tasks[t]
       IN  /\ tstate' = [tstate EXCEPT ![t] = "converting"]
           /\ takes' = [takes EXCEPT ![t] = @ + 1]
           /\ tstep' = [tstep EXCEPT ![t] = "fetch"]
           /\ md_path' = [md_path EXCEPT ![t] = PagePlan(task).markdown_path]
           /\ made' = [made EXCEPT ![t] = DirsNamedAtStart(task)]
           /\ dirs' = MkdirAll(dirs, DirsNamedAtStart(task))
    /\ started' = started + 1
    /\ image_counter' = 0
    /\ UNCHANGED <<submitted, terr, collected, failed_pages>>
    /\ UNCHANGED <<all_tasks, files, opc>>
    /\ UNCHANGED <<page_imgs, img_i, img_loaded, img_name, image_files, assigned, img_el>>
    /\ UNCHANGED treeVars
    /\ UNCHANGED clientVars

\* process_page raises: the task ends with the exception in its future.
Raise(t, error_msg) ==
    /\ tstate' = [tstate EXCEPT ![t] = RaisedState]
    /\ terr' = [terr EXCEPT ![t] = error_msg]
    /\ tstep' = [tstep EXCEPT ![t] = "done"]

\* html_content = self.client.get_page_content(page["id"]): returns or raises.
CanFetchPage(t) == tstep[t] = "fetch"

FetchPage(t) ==
    /\ CanFetchPage(t)
    /\ \/ /\ tstep' = [tstep EXCEPT ![t] =
                          IF page_imgs[t] = <<>> THEN "write" ELSE "img_load"]
          /\ img_i' = [img_i EXCEPT ![t] = 1]
          /\ UNCHANGED <<tstate, terr>>
       \/ /\ Raise(t, "fetch")
          /\ UNCHANGED img_i
    /\ UNCHANGED <<submitted, started, takes, collected, failed_pages>>
    /\ UNCHANGED <<all_tasks, md_path, made, dirs, files, opc>>
    /\ UNCHANGED <<image_counter, page_imgs, img_loaded, img_name, image_files, assigned, img_el>>
    /\ UNCHANGED treeVars
    /\ UNCHANGED clientVars

\* markdown_path.parent.mkdir(...); with open(markdown_path, 'w') ...: the
\* file is written, or the write raises.
CanWritePage(t) == tstep[t] = "write"

WritePage(t) ==
    /\ CanWritePage(t)
    /\ made' = [made EXCEPT ![t] = @ \cup DirsNamedAtWrite(all_tasks[t])]
    /\ dirs' = MkdirAll(dirs, DirsNamedAtWrite(all_tasks[t]))
    /\ IF CanOpen(dirs', md_path[t])
       THEN \/ /\ files' = WriteFile(files, md_path[t], t)
               /\ tstate' = [tstate EXCEPT ![t] = "written"]
               /\ tstep' = [tstep EXCEPT ![t] = "done"]
               /\ UNCHANGED terr
            \/ /\ Raise(t, "write")
               /\ UNCHANGED files
       ELSE /\ Raise(t, "nodir")
            /\ UNCHANGED files
    /\ UNCHANGED <<submitted, started, takes, collected, failed_pages>>
    /\ UNCHANGED <<all_tasks, md_path, opc>>
    /\ UNCHANGED <<treeVars, imgVars>>
    /\ UNCHANGED clientVars

\* One iteration of "for future, page in futures": future.result() returns,
\* or raises and the failure is recorded.
CanTakeResult ==
    /\ opc = "pool"
    /\ submitted = Len(all_tasks)
    /\ collected < Len(all_tasks)
    /\ ResultReady(collected + 1)

TakeResult ==
    /\ CanTakeResult
    /\ collected' = collected + 1
    /\ failed_pages' =
          IF terr[collected + 1] # "none"
          THEN RecordFailure(failed_pages, all_tasks[collected + 1].title,
                             terr[collected + 1])
          ELSE failed_pages
    /\ UNCHANGED <<submitted, started, takes, tstep, terr>>
    /\ UNCHANGED <<treeVars, jobVars, imgVars>>
    /\ UNCHANGED clientVars

\* The with block ends (shutdown(wait=True)) and the summary is printed.
CanPoolSummary ==
    /\ opc = "pool"
    /\ submitted = Len(all_tasks)
    /\ collected = Len(all_tasks)
    /\ \A t \in Tasks : Terminal(t)

PoolSummary ==
    /\ CanPoolSummary
    /\ opc' = "summary"
    /\ UNCHANGED <<all_tasks, tstate, md_path, made, dirs, files>>
    /\ UNCHANGED <<treeVars, poolVars, imgVars>>
    /\ UNCHANGED clientVars

DigitChars == <<"1", "2", "3", "4", "5", "6", "7", "8", "9">>

\* Listings of the pool specification: n pages in listing order, titled P1,
\* P2, ... and all at the top level ("flat"), or the first with the others as
\* its children ("nested"), or two pages at the top level both titled P
\* ("same").
PoolShapes == {"flat", "nested", "same"}

PoolListing(n, shape) ==
    [i \in 1 .. n |->
        [id |-> i, order |-> i,
         level |-> IF shape = "nested" /\ i > 1 THEN 1 ELSE 0,
         title |-> IF shape = "same" THEN <<"P">> ELSE <<"P", DigitChars[i]>>]]

InitPool ==
    \E n \in 0 .. MaxTasks, shape \in PoolShapes :
        /\ shape = "same" => n = 2
        /\ shape = "flat" => n <= 3
        /\ PoolStart(PoolListing(n, shape), [r \in 1 .. n |-> <<>>])

PoolNext ==
    \/ Submit
    \/ StartTask
    \/ \E t \in Tasks : FetchPage(t)
    \/ \E t \in Tasks : WritePage(t)
    \/ TakeResult
    \/ PoolSummary

SpecPool == InitPool /\ [][PoolNext]_vars

-----------------------------------------------------------------------------
(* Claims about the batch (SpecPool) *)

\* The tasks whose process_page raised.
Raised == {t \in Tasks : terr[t] # "none"}

\* (title, error) of the raised tasks among the first k, in task order.
RECURSIVE FailuresUpTo(_)
FailuresUpTo(k) ==
    IF k = 0 THEN <<>>
    ELSE IF terr[k] # "none"
    THEN Append(FailuresUpTo(k - 1), <<all_tasks[k].title, terr[k]>>)
    ELSE FailuresUpTo(k - 1)

DistinctTargets == \A t, u \in Tasks : md_path[t] = md_path[u] => t = u

\* C2: when the N target paths are pairwise distinct and the fetch or the
\* write of the pages in F raises, then at the summary all N tasks have run to
\* a terminal state, the failure list holds exactly the titles of F with their
\* errors, exactly N - |F| Markdown files are written, and every page outside
\* F is written whatever happened to its parent, children or siblings.
C2_PartialFailure ==
    (opc = "summary" /\ DistinctTargets) =>
        /\ \A t \in Tasks : Terminal(t) /\ takes[t] = 1
        /\ failed_pages = FailuresUpTo(Len(all_tasks))
        /\ Cardinality(DOMAIN files) = Len(all_tasks) - Cardinality(Raised)
        /\ \A t \in Tasks \ Raised :
              /\ tstate[t] = "written"
              /\ md_path[t] \in DOMAIN files
              /\ files[md_path[t]] = t
        /\ \A t \in Raised : tstate[t] = "failed" /\ terr[t] \in {"fetch", "write"}

C2_Witness ==
    /\ opc = "summary"
    /\ DistinctTargets
    /\ Len(all_tasks) > max_workers
    /\ all_tasks[1].has_children
    /\ terr[1] = "fetch"
    /\ terr[3] = "write"
    /\ \A t \in Tasks \ {1, 3} : tstate[t] = "written"
    /\ Len(failed_pages) = 2

\* A step changes a task's state only along Pending -> Converting ->
\* {Written, Failed}.
TaskStepOK ==
    \A t \in Tasks :
        \/ tstate'[t] = tstate[t]
        \/ tstate[t] = "pending" /\ tstate'[t] = "converting"
        \/ tstate[t] = "converting" /\ tstate'[t] \in {"written", "failed"}

\* How far a process_page call has come.
StepRank(step) ==
    CASE step = "queued" -> 0
      [] step = "fetch" -> 1
      [] step = "write" -> 2
      [] step = "done" -> 3
      [] OTHER -> 2

RECURSIVE RankSum(_)
RankSum(k) == IF k = 0 THEN 0 ELSE RankSum(k - 1) + StepRank(tstep[k])

\* What has been done of the batch: submits, takes, steps of the calls,
\* results taken, the summary.
Progress ==
    submitted + started + collected + RankSum(Len(all_tasks))
        + (IF opc = "summary" THEN 1 ELSE 0)

\* Some step of the batch can be taken: the guard of one of its actions holds.
CanStep ==
    \/ CanSubmit
    \/ CanStartTask
    \/ \E t \in Tasks : CanFetchPage(t) \/ CanWritePage(t)
    \/ CanTakeResult
    \/ CanPoolSummary

\* C7: every task follows Pending -> Converting -> {Written, Failed}, is
\* taken by a worker exactly once, never leaves Written or Failed, and has
\* reached a terminal state when the summary is reported.  The summary is
\* eventually reported when every fetch and write returns or raises: until
\* then some step of the batch can be taken, and every step adds to the
\* bounded Progress, so no run takes steps forever before it.
C7_PageStateMachine ==
    /\ [][TaskStepOK /\ Progress' > Progress]_vars
    /\ [](\A t \in Tasks :
            /\ takes[t] = (IF tstate[t] = "pending" THEN 0 ELSE 1)
            /\ tstate[t] \in {"pending", "converting", "written", "failed"})
    /\ [](opc = "summary" => \A t \in Tasks : Terminal(t))
    /\ [](opc # "summary" => CanStep)

\* C12: at most 5 tasks of the section are Converting at any moment; the
\* others are Pending or terminal.
C12_BoundedParallelism ==
    /\ Running <= 5
    /\ \A t \in Tasks : tstate[t] \in {"pending", "converting", "written", "failed"}

C12_Witness ==
    /\ Running = 5
    /\ submitted = Len(all_tasks)
    /\ \E t \in Tasks : tstate[t] = "pending"

C7_Witness ==
    /\ opc = "summary"
    /\ Len(all_tasks) > max_workers
    /\ \E t, u \in Tasks : tstate[t] = "written" /\ tstate[u] = "failed"

-----------------------------------------------------------------------------
(* OneNoteClient: one call of an API operation against the server *)

\* max_retries = 3
max_retries == 3

\* retry_delay = 2  # seconds
initial_retry_delay == 2

\* A backoff that waits the same time again.
NextDelaySame(delay) == delay

\* retry_delay *= 2
NextDelay(delay) == delay * 2

\* The operations that go through _make_request: get_notebooks,
\* get_sections, get_pages.
RequestOps == {"notebooks", "sections", "pages"}

\* What a requests.get can come back with: a network error
\* (RequestException), a status, or status 200 with a body that is not JSON.
\* The server answers 401 exactly to a token that is not valid.
Responses(token) ==
    {"network", "504", "500"}
        \cup (IF token = "valid" THEN {"200", "badjson"} ELSE {"401"})

\* How get_access_token can end: the token; Exception (no access_token in the
\* result) or OSError (the redirect port); a RequestException from the token
\* request.
TokenResults == {"ok", "error", "network"}

\* The exception leaves _make_request or get_page_content.
RaiseToCaller ==
    /\ rpc' = "done"
    /\ outcome' = "raised"

\* time.sleep(retry_delay); retry_delay *= 2; continue
Backoff ==
    /\ slept' = Append(slept, retry_delay)
    /\ retry_delay' = NextDelay(retry_delay)
    /\ attempt' = attempt + 1
    /\ UNCHANGED <<rpc, outcome>>

\* except requests.exceptions.RequestException: retry after a sleep while
\* attempt < max_retries - 1, else raise.
OnRequestException ==
    IF attempt < max_retries - 1
    THEN Backoff
    ELSE RaiseToCaller /\ UNCHANGED <<attempt, retry_delay, slept>>

\* _make_request up to the loop: "if not self.access_token:
\* self.access_token = self.get_access_token()", the headers, max_retries and
\* retry_delay.  An exception of get_access_token is outside the try.
EnsureToken ==
    /\ rpc = "call"
    /\ rop \in RequestOps
    /\ attempt' = 0
    /\ retry_delay' = initial_retry_delay
    /\ IF access_token = "none"
       THEN \E res \in TokenResults :
               /\ token_results' = Append(token_results, res)
               /\ IF res = "ok"
                  THEN /\ access_token' = "valid"
                       /\ rpc' = "loop"
                       /\ UNCHANGED outcome
                  ELSE /\ RaiseToCaller
                       /\ UNCHANGED access_token
       ELSE /\ rpc' = "loop"
            /\ UNCHANGED <<access_token, token_results, outcome>>
    /\ UNCHANGED <<rop, slept, responses, stale>>
    /\ UNCHANGED <<treeVars, jobVars, poolVars, imgVars, pagingVars, auxVars>>

\* self.access_token = self.get_access_token(); the header; continue.  The
\* call is inside the try: a RequestException of the token request is
\* caught like one of requests.get, any other exception leaves.
RefreshToken ==
    \E res \in TokenResults :
        /\ token_results' = Append(token_results, res)
        /\ IF res = "ok"
           THEN /\ access_token' = "valid"
                /\ attempt' = attempt + 1
                /\ UNCHANGED <<retry_delay, slept, rpc, outcome>>
           ELSE IF res = "network"
           THEN /\ Backoff
                /\ UNCHANGED access_token
           ELSE /\ RaiseToCaller
                /\ UNCHANGED <<access_token, attempt, retry_delay, slept>>

\* response.json() raises on a body that is not JSON: a RequestException
\* with requests 2.27 or later, a ValueError before.
OnBadJson ==
    \/ OnRequestException
    \/ RaiseToCaller /\ UNCHANGED <<attempt, retry_delay, slept>>

\* return response.json()
ReturnJson ==
    /\ rpc' = "done"
    /\ outcome' = "returned"
    /\ UNCHANGED <<attempt, retry_delay, slept>>

\* One iteration of "for attempt in range(max_retries)".  Every path of the
\* iteration with attempt = max_retries - 1 returns or raises, so the loop
\* never ends by running out and the raise after it is never reached.  A 401
\* or 504 on the last attempt, any other error status and a network error
\* end in the except clause (raise_for_status raises an HTTPError).
Attempt ==
    /\ rpc = "loop"
    /\ \E resp \in Responses(access_token) :
          /\ responses' = Append(responses, resp)
          /\ IF resp = "401" /\ attempt < max_retries - 1
             THEN RefreshToken
             ELSE /\ UNCHANGED <<access_token, token_results>>
                  /\ IF resp = "504" /\ attempt < max_retries - 1 THEN Backoff
                     ELSE IF resp = "200" THEN ReturnJson
                     ELSE IF resp = "badjson" THEN OnBadJson
                     ELSE OnRequestException
    /\ UNCHANGED <<rop, stale>>
    /\ UNCHANGED <<treeVars, jobVars, poolVars, imgVars, pagingVars, auxVars>>

\* get_page_content: one requests.get with the current token; any status but
\* 200 raises, and so does a network error.
GetPageContent ==
    /\ rpc = "call"
    /\ rop = "content"
    /\ \E resp \in Responses(access_token) \ {"badjson"} :
          /\ responses' = Append(responses, resp)
          /\ rpc' = "done"
          /\ outcome' = IF resp = "200" THEN "returned" ELSE "raised"
    /\ UNCHANGED <<rop, access_token, attempt, retry_delay, slept, token_results, stale>>
    /\ UNCHANGED <<treeVars, jobVars, poolVars, imgVars, pagingVars, auxVars>>

\* The server side: the token in use expires.
Expire ==
    /\ rpc \in {"call", "loop"}
    /\ access_token = "valid"
    /\ access_token' = "expired"
    /\ stale' = stale + 1
    /\ UNCHANGED <<rop, rpc, attempt, retry_delay, slept, responses, token_results, outcome>>
    /\ UNCHANGED <<treeVars, jobVars, poolVars, imgVars, pagingVars, auxVars>>

\* An operation is called with the token the client holds: none yet (only
\* before the first _make_request), a valid one, or one that has expired.
InitReq ==
    /\ rop \in RequestOps \cup {"content"}
    /\ rpc = "call"
    /\ access_token \in (IF rop = "content" THEN {"valid", "expired"}
                         ELSE {"none", "valid", "expired"})
    /\ attempt = 0
    /\ retry_delay = 0
    /\ slept = <<>>
    /\ responses = <<>>
    /\ token_results = <<>>
    /\ stale = (IF access_token = "expired" THEN 1 ELSE 0)
    /\ outcome = "none"
    /\ TreeIdle
    /\ JobIdle
    /\ PoolIdle
    /\ ImagesIdle
    /\ PagingIdle
    /\ AuxIdle

ReqNext ==
    \/ EnsureToken
    \/ Attempt
    \/ GetPageContent
    \/ Expire

SpecReq == InitReq /\ [][ReqNext]_vars

-----------------------------------------------------------------------------
(* Claims about the requests (SpecReq) *)

\* The attempts that are followed by a wait whatever else happens: a 504 or a
\* network error that is not the last attempt.
WaitedAfter ==
    {i \in 1 .. Len(responses) :
        i < max_retries /\ responses[i] \in {"504", "network"}}

\* C9: _make_request issues at most 3 HTTP attempts; it waits after every 504
\* and every network error that is not the last attempt, 2 seconds the first
\* time and twice the time before on each further wait; it returns only
\* when the last response is a successful one, and when the call has ended
\* otherwise the error has been raised to the caller.
C9_BoundedRetry ==
    rop \in RequestOps =>
        /\ Len(responses) <= max_retries
        /\ rpc = "loop" => attempt = Len(responses) /\ attempt < max_retries
        /\ slept \in {<<>>, <<2>>, <<2, 4>>}
        /\ Cardinality(WaitedAfter) <= Len(slept)
        /\ Len(slept) <= Len(responses)
        /\ outcome = "returned" => responses # <<>> /\ Last(responses) = "200"
        /\ rpc = "done" =>
              /\ outcome \in {"returned", "raised"}
              /\ (responses = <<>> \/ Last(responses) # "200") => outcome = "raised"

C9_Witness ==
    /\ rop \in RequestOps
    /\ rpc = "done"
    /\ outcome = "raised"
    /\ responses = <<"504", "network", "504">>
    /\ slept = <<2, 4>>

\* The call met no fault but an expired token: the token was expired or
\* expired once, every response is a 200 or the 401 to the expired token, and
\* every get_access_token gave a token.
ExpiredTokenOnly ==
    /\ stale = 1
    /\ \A i \in 1 .. Len(responses) : responses[i] \in {"200", "401"}
    /\ \A i \in 1 .. Len(token_results) : token_results[i] = "ok"

\* C10: an operation of the client whose only fault is an expired token
\* returns: the token is acquired again and the request retried.
C10_TransparentReacquisition ==
    (rpc = "done" /\ ExpiredTokenOnly) => outcome = "returned"

-----------------------------------------------------------------------------
(* get_pages: the fetch loop *)

MaxListing == 201

\* page_size = 100
page_size == 100

\* The i-th page of the section's listing.
ListedPage(i) == [id |-> i, order |-> i, level |-> 0, title |-> <<"P">>]

\* The "value" of the response to $skip = sk, $top = top on a listing of n
\* pages.
Batch(n, sk, top) ==
    [j \in 1 .. (IF n - sk < top THEN (IF n - sk < 0 THEN 0 ELSE n - sk) ELSE top) |->
        ListedPage(sk + j)]

\* if total_count and page_count < total_count, with total_count =
\* response.get("@odata.count"): None without the hint.
MorePages(hint, total_count, count) ==
    hint /\ total_count # 0 /\ count < total_count

\* One iteration of "while True": the request, then the batch.  The request
\* returns the batch or raises out of get_pages.
FetchBatch ==
    /\ gpc = "fetch"
    /\ \/ /\ gpc' = "raised"
          /\ UNCHANGED <<all_pages, skip, page_count>>
       \/ LET pages == Batch(listed, skip, page_size)
          IN  IF pages = <<>>
              THEN /\ gpc' = "done"
                   /\ UNCHANGED <<all_pages, skip, page_count>>
              ELSE /\ all_pages' = all_pages \o pages
                   /\ page_count' = page_count + Len(pages)
                   /\ IF MorePages(count_hint, listed, page_count')
                      THEN /\ skip' = skip + page_size
                           /\ UNCHANGED gpc
                      ELSE /\ gpc' = "done"
                           /\ UNCHANGED skip
    /\ UNCHANGED <<listed, count_hint>>
    /\ UNCHANGED <<page_map, root_pages, children, bi, bpc>>
    /\ UNCHANGED <<jobVars, poolVars, imgVars, reqVars, auxVars>>

InitPaging ==
    /\ listed \in 0 .. MaxListing
    /\ count_hint \in BOOLEAN
    /\ skip = 0
    /\ page_count = 0
    /\ gpc = "fetch"
    /\ TreeIdle
    /\ JobIdle
    /\ PoolIdle
    /\ ImagesIdle
    /\ ReqIdle
    /\ AuxIdle

PagingNext == FetchBatch

SpecPaging == InitPaging /\ [][PagingNext]_vars

-----------------------------------------------------------------------------
(* Claims about the fetch loop (SpecPaging) *)

\* C8: when the fetch loop ends, the pages handed on are the pages of the
\* section's listing, each exactly once (here: in listing order).
C8_Pagination ==
    gpc = "done" => all_pages = Batch(listed, 0, listed)

-----------------------------------------------------------------------------
(* convert_page_to_markdown / download_image: the images of the pages *)

MaxImages == 2

\* The image URLs of the model.
Urls == {"https://graph.microsoft.com/a.png", "https://example.com/b.png"}

\* hashlib.md5(image_url.encode()).hexdigest()[:8]
url_hash(image_url) ==
    CASE image_url = "https://graph.microsoft.com/a.png" -> "db64e05d"
      [] image_url = "https://example.com/b.png" -> "85efc80e"

\* os.path.splitext(urlparse(image_url).path)[1], without the dot.
UrlExt(image_url) == <<"p", "n", "g">>

\* A local filename that leaves the counter out.
LocalFilenameNoCounter(page_title, image_url, counter) ==
    [page_name |-> sanitize_image_filename(page_title),
     url_hash |-> url_hash(image_url),
     counter |-> 0,
     ext |-> sanitize_filename(UrlExt(image_url))]

\* local_filename = f"{page_name}_image_{url_hash}_{self.image_counter}{ext}",
\* as its four parts.
LocalFilename(page_title, image_url, counter) ==
    [page_name |-> sanitize_image_filename(page_title),
     url_hash |-> url_hash(image_url),
     counter |-> counter,
     ext |-> sanitize_filename(UrlExt(image_url))]

\* "self.image_counter += 1" reads the attribute ...
LoadCounter(t) ==
    /\ tstep[t] = "img_load"
    /\ img_loaded' = [img_loaded EXCEPT ![t] = image_counter]
    /\ tstep' = [tstep EXCEPT ![t] = "img_store"]
    /\ UNCHANGED <<image_counter, page_imgs, img_i, img_name, image_files, assigned, img_el>>
    /\ UNCHANGED <<submitted, started, takes, terr, collected, failed_pages>>
    /\ UNCHANGED <<treeVars, jobVars, clientVars>>

\* ... and stores the sum.
StoreCounter(t) ==
    /\ tstep[t] = "img_store"
    /\ image_counter' = img_loaded[t] + 1
    /\ tstep' = [tstep EXCEPT ![t] = "img_name"]
    /\ UNCHANGED <<page_imgs, img_i, img_loaded, img_name, image_files, assigned, img_el>>
    /\ UNCHANGED <<submitted, started, takes, terr, collected, failed_pages>>
    /\ UNCHANGED <<treeVars, jobVars, clientVars>>

\* The extension, then local_filename from self.image_counter as it is now.
NameImage(t) ==
    /\ tstep[t] = "img_name"
    /\ LET name == LocalFilename(all_tasks[t].title, page_imgs[t][img_i[t]],
                                 image_counter)
       IN  /\ img_name' = [img_name EXCEPT ![t] = name]
           /\ assigned' = assigned \cup
                             {[task |-> t, index |-> img_i[t], name |-> name]}
    /\ tstep' = [tstep EXCEPT ![t] = "img_get"]
    /\ UNCHANGED <<image_counter, page_imgs, img_i, img_loaded, image_files, img_el>>
    /\ UNCHANGED <<submitted, started, takes, terr, collected, failed_pages>>
    /\ UNCHANGED <<treeVars, jobVars, clientVars>>

\* An image loop that lets a failed download end the page.
AfterImageFailureRaise == "raise"

\* except Exception in download_image: a warning, return None; the caller
\* leaves the element as it is and goes on.
AfterImageFailure == "continue"

\* requests.get and the write of images/local_filename, then the element is
\* rewritten; or an exception (download_image returns None); then the next
\* img of the page.
GetImage(t) ==
    /\ tstep[t] = "img_get"
    /\ \/ /\ image_files' = WriteFile(image_files, img_name[t], <<t, img_i[t]>>)
          /\ img_el' = [img_el EXCEPT ![t][img_i[t]] =
                           RewrittenImg(PagePlan(all_tasks[t]).is_child_page, img_name[t])]
          /\ img_i' = [img_i EXCEPT ![t] = @ + 1]
          /\ tstep' = [tstep EXCEPT ![t] =
                          IF img_i[t] < Len(page_imgs[t]) THEN "img_load" ELSE "write"]
          /\ UNCHANGED <<tstate, terr>>
       \/ /\ UNCHANGED <<image_files, img_el>>
          /\ IF AfterImageFailure = "raise"
             THEN /\ Raise(t, "image")
                  /\ UNCHANGED img_i
             ELSE /\ img_i' = [img_i EXCEPT ![t] = @ + 1]
                  /\ tstep' = [tstep EXCEPT ![t] =
                                  IF img_i[t] < Len(page_imgs[t]) THEN "img_load"
                                  ELSE "write"]
                  /\ UNCHANGED <<tstate, terr>>
    /\ UNCHANGED <<image_counter, page_imgs, img_loaded, img_name, assigned>>
    /\ UNCHANGED <<submitted, started, takes, collected, failed_pages>>
    /\ UNCHANGED <<all_tasks, md_path, made, dirs, files, opc>>
    /\ UNCHANGED <<treeVars, clientVars>>

ImageTitles == {<<"P">>, <<"p">>, <<"Q">>}

\* Two top-level pages, the first titled P, each with up to MaxImages images;
\* the first image of the first page, if any, is the first URL (the other
\* listings are these with the URLs renamed).
ImagesListing(title) ==
    <<[id |-> 1, order |-> 1, level |-> 0, title |-> <<"P">>],
      [id |-> 2, order |-> 2, level |-> 0, title |-> title]>>

InitImages ==
    \E title \in ImageTitles, n1, n2 \in 0 .. MaxImages :
        \E imgs1 \in [1 .. n1 -> Urls], imgs2 \in [1 .. n2 -> Urls] :
            /\ n1 > 0 => imgs1[1] = "https://graph.microsoft.com/a.png"
            /\ PoolStart(ImagesListing(title), <<imgs1, imgs2>>)

ImagesNext ==
    \/ PoolNext
    \/ \E t \in Tasks : LoadCounter(t)
    \/ \E t \in Tasks : StoreCounter(t)
    \/ \E t \in Tasks : NameImage(t)
    \/ \E t \in Tasks : GetImage(t)

SpecImages == InitImages /\ [][ImagesNext]_vars

-----------------------------------------------------------------------------
(* Claims about the images (SpecImages) *)

\* C1: no two image downloads of a section, of one page or of two, are given
\* the same local filename.
C1_UniqueImageNames ==
    \A x, y \in assigned : x.name = y.name => x = y

\* C17: the counter is scoped to a page: between a page's reset and its
\* write, whatever the other workers do, the counter the page's worker finds
\* is the number of images the page has gone through (0 after the reset, i - 1
\* when it increments for its i-th image, i when it names it).
C17_CounterIsolation ==
    \A t \in Tasks :
        /\ tstep[t] = "fetch" => image_counter = 0
        /\ tstep[t] = "img_load" => image_counter = img_i[t] - 1
        /\ tstep[t] = "img_store" => img_loaded[t] = img_i[t] - 1
        /\ tstep[t] = "img_name" => image_counter = img_i[t]

\* The task that writes the path last when the tasks run one after another.
LastWriterInOrder(path) ==
    CHOOSE t \in Tasks :
        /\ tstate[t] = "written" /\ md_path[t] = path
        /\ \A u \in Tasks : (tstate[u] = "written" /\ md_path[u] = path) => u <= t

\* C19: for given page contents and given outcomes of the requests, the
\* result at the summary is the one of the run that converts the tasks one
\* after another: each Markdown file holds the page of the last task of its
\* path in task order, the i-th image of a page is referred to by the name
\* with counter i, and the failure list is in task order.
C19_InterleavingIndependence ==
    opc = "summary" =>
        /\ \A path \in DOMAIN files : files[path] = LastWriterInOrder(path)
        /\ \A x \in assigned :
              x.name = LocalFilename(all_tasks[x.task].title,
                                     page_imgs[x.task][x.index], x.index)
        /\ failed_pages = FailuresUpTo(Len(all_tasks))

-----------------------------------------------------------------------------
(* The credential among the threads of one section: the main thread lists  *)
(* the pages through _make_request, then the workers fetch page contents   *)

\* The worker threads of the model.
Workers == 1 .. 3

\* requests.get of _make_request on the main thread; a 401 before the last
\* attempt enters get_access_token.
MainRequest ==
    /\ mpc = "request"
    /\ \E resp \in Responses(access_token) :
          IF resp = "200"
          THEN /\ mpc' = "pool"
               /\ UNCHANGED <<acquiring, attempt>>
          ELSE IF attempt >= max_retries - 1 \/ resp = "badjson"
          THEN /\ mpc' = "raised"
               /\ UNCHANGED <<acquiring, attempt>>
          ELSE IF resp = "401"
          THEN /\ mpc' = "acquiring"
               /\ acquiring' = acquiring \cup {"main"}
               /\ UNCHANGED attempt
          ELSE /\ attempt' = attempt + 1
               /\ UNCHANGED <<mpc, acquiring>>
    /\ UNCHANGED <<wpc, whdr, access_token>>
    /\ UNCHANGED <<rop, rpc, retry_delay, slept, responses, token_results, stale, outcome>>
    /\ UNCHANGED restOfRefresh

\* get_access_token returns and self.access_token is assigned, or it raises.
MainAcquired ==
    /\ mpc = "acquiring"
    /\ acquiring' = acquiring \ {"main"}
    /\ \E res \in TokenResults :
          IF res = "ok"
          THEN /\ access_token' = "valid"
               /\ attempt' = attempt + 1
               /\ mpc' = "request"
          ELSE IF res = "network"
          THEN /\ attempt' = attempt + 1
               /\ mpc' = "request"
               /\ UNCHANGED access_token
          ELSE /\ mpc' = "raised"
               /\ UNCHANGED <<access_token, attempt>>
    /\ UNCHANGED <<wpc, whdr>>
    /\ UNCHANGED <<rop, rpc, retry_delay, slept, responses, token_results, stale, outcome>>
    /\ UNCHANGED restOfRefresh

\* get_page_content on a worker: headers = {"Authorization": f"Bearer
\* {self.access_token}", ...}, one read of the attribute.
WorkerRead(w) ==
    /\ mpc = "pool"
    /\ wpc[w] = "ready"
    /\ whdr' = [whdr EXCEPT ![w] = access_token]
    /\ wpc' = [wpc EXCEPT ![w] = "sent"]
    /\ UNCHANGED <<mpc, acquiring>>
    /\ UNCHANGED reqVars
    /\ UNCHANGED restOfRefresh

\* The response to the worker's requests.get: returned on 200, else
\* "Failed to get page content" is raised and the page task fails.
WorkerResponse(w) ==
    /\ wpc[w] = "sent"
    /\ \E resp \in Responses(access_token) \ {"badjson"} :
          wpc' = [wpc EXCEPT ![w] =
                     IF resp = "200" THEN "returned"
                     ELSE IF resp = "401" THEN "unauthorized"
                     ELSE "error"]
    /\ UNCHANGED <<mpc, acquiring, whdr>>
    /\ UNCHANGED reqVars
    /\ UNCHANGED restOfRefresh

\* The server side: the token in use expires, before or during the batch.
TokenExpires ==
    /\ mpc \in {"request", "pool"}
    /\ access_token = "valid"
    /\ \E w \in Workers : wpc[w] \in {"ready", "sent"}
    /\ access_token' = "expired"
    /\ UNCHANGED refreshVars
    /\ UNCHANGED <<rop, rpc, attempt, retry_delay, slept, responses, token_results, stale, outcome>>
    /\ UNCHANGED restOfRefresh

InitRefresh ==
    /\ mpc = "request"
    /\ acquiring = {}
    /\ wpc = [w \in Workers |-> "ready"]
    /\ whdr = [w \in Workers |-> "none"]
    /\ rop = "pages"
    /\ rpc = "idle"
    /\ access_token \in {"valid", "expired"}
    /\ attempt = 0
    /\ retry_delay = 0
    /\ slept = <<>>
    /\ responses = <<>>
    /\ token_results = <<>>
    /\ stale = 0
    /\ outcome = "none"
    /\ TreeIdle
    /\ MdIdle
    /\ JobIdle
    /\ PoolIdle
    /\ ImagesIdle
    /\ PagingIdle
    /\ SanIdle
    /\ HdrIdle
    /\ RunIdle

RefreshNext ==
    \/ MainRequest
    \/ MainAcquired
    \/ \E w \in Workers : WorkerRead(w)
    \/ \E w \in Workers : WorkerResponse(w)
    \/ TokenExpires

SpecRefresh == InitRefresh /\ [][RefreshNext]_vars

-----------------------------------------------------------------------------
(* Claims about the credential among the threads (SpecRefresh) *)

\* At most one thread is inside get_access_token.
OneAcquisition == Cardinality(acquiring) <= 1

\* A token read is a whole value of self.access_token.
WholeTokens == \A w \in Workers : whdr[w] \in {"none", "valid", "expired"}

\* A worker whose request was refused for its token waits for the
\* acquisition of a new one: it has not failed for the 401.
NeedyThreadsWait == \A w \in Workers : wpc[w] # "unauthorized"

\* C11: at most one credential acquisition is in progress, a thread that
\* needs the credential waits for the acquisition to finish, and no thread
\* reads a torn token.
C11_RefreshCriticalSection ==
    /\ OneAcquisition
    /\ NeedyThreadsWait
    /\ WholeTokens

-----------------------------------------------------------------------------
(* The sanitizers applied to a text, and to their own result *)

MaxLen == 3

\* The characters of the texts: a capital, a small letter, a digit, the two
\* slashes, space, dash, dot, a control character, an underscore.
SanChars == {"A", "a", "1", "/", "\\", " ", "-", ".", "\n", "_"}

\* The function san_fn of OneNoteToMarkdown.
ApplySanitizer(fn, text) ==
    IF fn = "sanitize_filename" THEN sanitize_filename(text)
    ELSE sanitize_image_filename(text)

Sanitize ==
    /\ san_pc = 0
    /\ san_out' = ApplySanitizer(san_fn, san_in)
    /\ san_pc' = 1
    /\ UNCHANGED <<san_fn, san_in, san_again>>
    /\ UNCHANGED restOfSan

Resanitize ==
    /\ san_pc = 1
    /\ san_again' = ApplySanitizer(san_fn, san_out)
    /\ san_pc' = 2
    /\ UNCHANGED <<san_fn, san_in, san_out>>
    /\ UNCHANGED restOfSan

InitSan ==
    /\ san_fn \in {"sanitize_filename", "sanitize_image_filename"}
    /\ \E n \in 0 .. MaxLen : san_in \in [1 .. n -> SanChars]
    /\ san_out = <<>>
    /\ san_again = <<>>
    /\ san_pc = 0
    /\ TreeIdle
    /\ MdIdle
    /\ JobIdle
    /\ PoolIdle
    /\ ImagesIdle
    /\ ReqIdle
    /\ PagingIdle
    /\ RefreshIdle
    /\ HdrIdle
    /\ RunIdle

SanNext ==
    \/ Sanitize
    \/ Resanitize

SpecSan == InitSan /\ [][SanNext]_vars

-----------------------------------------------------------------------------
(* Claims about the sanitizers (SpecSan) *)

\* C13: for every text, the empty one included, each sanitizer returns a
\* non-empty text without control characters, and returns that text
\* unchanged when applied to it.
C13_SanitizerIdempotence ==
    /\ san_pc >= 1 =>
          /\ san_out # <<>>
          /\ \A i \in 1 .. Len(san_out) : san_out[i] \notin ControlChars
    /\ san_pc = 2 => san_again = san_out

C13_Witness ==
    /\ san_pc = 2
    /\ san_fn = "sanitize_filename"
    /\ san_in = <<"\n", "/", ".">>
    /\ san_out = Untitled
    /\ san_again = Untitled

-----------------------------------------------------------------------------
(* One page converted with no other page in the section *)

\* A section of one page with up to MaxImages images.
OnePageListing(title) ==
    <<[id |-> 1, order |-> 1, level |-> 0, title |-> title]>>

InitOnePage ==
    \E title \in ImageTitles, n \in 0 .. MaxImages :
        \E imgs \in [1 .. n -> Urls] :
            PoolStart(OnePageListing(title), <<imgs>>)

SpecOnePage == InitOnePage /\ [][ImagesNext]_vars

-----------------------------------------------------------------------------
(* Claims about one page's images (SpecOnePage) *)

\* C14: with no other page being processed, the local filenames of the
\* page's image downloads are pairwise distinct, repeated URLs included: the
\* i-th download is named with counter i.
C14_UniqueWithinPage ==
    /\ \A x \in assigned : x.name.counter = x.index
    /\ \A x, y \in assigned : x.index # y.index => x.name # y.name

C14_Witness ==
    /\ opc = "summary"
    /\ Len(page_imgs[1]) = 2
    /\ page_imgs[1][1] = page_imgs[1][2]
    /\ Cardinality(assigned) = 2
    /\ Cardinality({x.name : x \in assigned}) = 2

-----------------------------------------------------------------------------
(* The credential on image requests *)

\* 'graph.microsoft.com'
ContentHost == <<"g", "r", "a", "p", "h", ".", "m", "i", "c", "r", "o", "s", "o", "f", "t", ".", "c", "o", "m">>

\* The img URLs of the model: https:// + host + path + query.
UrlHosts ==
    {ContentHost,
     <<"e", "x", "a", "m", "p", "l", "e", ".", "c", "o", "m">>,
     <<"g", "r", "a", "p", "h", ".", "m", "i", "c", "r", "o", "s", "o", "f", "t", ".", "c", "o", "m", ".", "e", "v", "i", "l", ".", "i", "o">>}

UrlPaths ==
    {<<"/", "a", ".", "p", "n", "g">>,
     <<"/", "a">>,
     <<"/", "g", "r", "a", "p", "h", ".", "m", "i", "c", "r", "o", "s", "o", "f", "t", ".", "c", "o", "m", "/", "a">>}

UrlQueries ==
    {<<>>,
     <<"?", "r", "=", "g", "r", "a", "p", "h", ".", "m", "i", "c", "r", "o", "s", "o", "f", "t", ".", "c", "o", "m">>}

\* img_url as the string the code sees.
UrlText(url) == <<"h", "t", "t", "p", "s", ":", "/", "/">> \o url.host \o url.path \o url.query

\* needle in text
Contains(text, needle) ==
    \E i \in 1 .. Len(text) - Len(needle) + 1 :
        SubSeq(text, i, i + Len(needle) - 1) = needle

\* Positions of the character c in text.
IndexesOf(text, c) == {i \in 1 .. Len(text) : text[i] = c}

\* os.path.splitext(urlparse(image_url).path)[1] is not empty: the last
\* component of the path has a dot after its first character.
HasExt(path) ==
    LET slashes == IndexesOf(path, "/")
        start == IF slashes = {} THEN 1
                 ELSE (CHOOSE i \in slashes : \A j \in slashes : j <= i) + 1
    IN  \E i \in IndexesOf(path, ".") : i > start

\* ext before any probe: the URL path's extension; without one, the probe is
\* made only "if headers", and otherwise ext is the '.png' default.
ExtWithoutProbe(path, headers) ==
    IF HasExt(path) THEN "url"
    ELSE IF headers = "bearer" THEN "unset"
    ELSE "default"

\* if 'graph.microsoft.com' in img_url and self.client.access_token:
\*     headers = {"Authorization": ...}  else: headers = None
DecideHeaders ==
    /\ h_pc = "decide"
    /\ h_headers' = IF Contains(UrlText(h_url), ContentHost) /\ access_token # "none"
                    THEN "bearer" ELSE "none"
    /\ h_pc' = IF ~HasExt(h_url.path) /\ h_headers' = "bearer" THEN "probe" ELSE "get"
    /\ h_ext' = ExtWithoutProbe(h_url.path, h_headers')
    /\ UNCHANGED <<h_url, h_sent, h_probe>>
    /\ UNCHANGED reqVars
    /\ UNCHANGED restOfHdr

\* How requests.head can end: a content-type with 'image/' in it, a response
\* without one, or an exception.
ProbeResults == {"image", "other", "raised"}

\* requests.head(image_url, headers=headers): answered, and ext is taken from
\* the content type or left for the '.png' default; or it raises inside
\* download_image's try and download_image returns None.
ProbeType ==
    /\ h_pc = "probe"
    /\ h_sent' = Append(h_sent, [method |-> "HEAD", auth |-> h_headers = "bearer"])
    /\ \E res \in ProbeResults :
          /\ h_probe' = res
          /\ h_pc' = IF res = "raised" THEN "done" ELSE "get"
          /\ h_ext' = IF res = "image" THEN "probe"
                      ELSE IF res = "other" THEN "default"
                      ELSE h_ext
    /\ UNCHANGED <<h_url, h_headers>>
    /\ UNCHANGED reqVars
    /\ UNCHANGED restOfHdr

\* requests.get(image_url, stream=True, headers=headers)
FetchImage ==
    /\ h_pc = "get"
    /\ h_sent' = Append(h_sent, [method |-> "GET", auth |-> h_headers = "bearer"])
    /\ h_pc' = "done"
    /\ UNCHANGED <<h_url, h_headers, h_probe, h_ext>>
    /\ UNCHANGED reqVars
    /\ UNCHANGED restOfHdr

InitHdr ==
    /\ h_url \in [host : UrlHosts, path : UrlPaths, query : UrlQueries]
    /\ h_pc = "decide"
    /\ h_headers = "unset"
    /\ h_sent = <<>>
    /\ h_probe = "none"
    /\ h_ext = "unset"
    /\ rop = "none"
    /\ rpc = "idle"
    /\ access_token \in {"none", "valid", "expired"}
    /\ attempt = 0
    /\ retry_delay = 0
    /\ slept = <<>>
    /\ responses = <<>>
    /\ token_results = <<>>
    /\ stale = 0
    /\ outcome = "none"
    /\ TreeIdle
    /\ MdIdle
    /\ JobIdle
    /\ PoolIdle
    /\ ImagesIdle
    /\ PagingIdle
    /\ RefreshIdle
    /\ SanIdle
    /\ RunIdle

HdrNext ==
    \/ DecideHeaders
    \/ ProbeType
    \/ FetchImage

SpecHdr == InitHdr /\ [][HdrNext]_vars

-----------------------------------------------------------------------------
(* Claims about the credential on image requests (SpecHdr) *)

\* C15: a request for an image (GET or HEAD) carries the credential exactly
\* when the URL's host is the content host (and the client holds a token);
\* a URL on another host is requested without it.
C15_CredentialConfinement ==
    \A i \in 1 .. Len(h_sent) :
        h_sent[i].auth <=> (h_url.host = ContentHost /\ access_token # "none")

\* The requests of the element were made with this method.
Sent(method) == \E i \in 1 .. Len(h_sent) : h_sent[i].method = method

\* C21: when the URL's path has no extension a HEAD probe is made; when the
\* probe gives no image type or raises, the extension is the '.png' default
\* and the GET of the image body is still made.
C21_ExtensionFallback ==
    (h_pc = "done" /\ ~HasExt(h_url.path)) =>
        /\ Sent("HEAD")
        /\ h_probe \in {"other", "raised"} => (h_ext = "default" /\ Sent("GET"))

-----------------------------------------------------------------------------
(* The download command: download_and_convert under download's try/except *)

MaxSections == 2
MaxSectionPages == 2

SectionNames == {"A", "B"}

\* How a call of the client can end on the main thread: its value, an
\* exception of get_access_token, or the request failing after its retries.
CallResults == {"ok", "credential", "request"}

\* Path.mkdir(parents=True, exist_ok=True): done, or OSError.
MkdirResults == {"ok", "oserror"}

\* except Exception as e: click.echo(f"Error: {str(e)}", err=True);
\* raise click.Abort()
Abort(cause) ==
    /\ fatal' = cause
    /\ exit_status' = "aborted"
    /\ run_pc' = "exit"

\* A result loop that gives up at a failed page.
AfterPageFailuresAbort(k) == IF k > 0 THEN "abort" ELSE "continue"

\* except Exception in the loop over the futures: the failure is recorded,
\* "Continue processing other pages even if one fails".
AfterPageFailures(k) == "continue"

\* sections = [s for s in sections if s["displayName"] == section_name]
FilterSections(names, arg) ==
    LET Wanted(n) == n = arg
    IN  IF arg = "none" THEN names ELSE SelectSeq(names, Wanted)

\* base_output_path.mkdir(parents=True, exist_ok=True)
MakeBaseDir ==
    /\ run_pc = "mkdir"
    /\ \E res \in MkdirResults :
          IF res = "ok"
          THEN run_pc' = "notebooks" /\ UNCHANGED <<fatal, exit_status>>
          ELSE Abort("mkdir")
    /\ UNCHANGED <<nb_found, sec_names, section_arg, sec_todo, sec_i, listed_pages,
                   dispatched, failed_count>>
    /\ UNCHANGED restOfRun

\* notebooks = self.client.get_notebooks(); the notebook of the given name
FindNotebook ==
    /\ run_pc = "notebooks"
    /\ \E res \in CallResults :
          IF res # "ok" THEN Abort(res)
          ELSE IF ~nb_found THEN Abort("notebook_not_found")
          ELSE run_pc' = "sections" /\ UNCHANGED <<fatal, exit_status>>
    /\ UNCHANGED <<nb_found, sec_names, section_arg, sec_todo, sec_i, listed_pages,
                   dispatched, failed_count>>
    /\ UNCHANGED restOfRun

\* sections = self.client.get_sections(notebook["id"]), the two checks and
\* the filter
GetSections ==
    /\ run_pc = "sections"
    /\ \E res \in CallResults :
          IF res # "ok"
          THEN Abort(res) /\ UNCHANGED <<sec_todo, sec_i>>
          ELSE IF sec_names = <<>>
          THEN Abort("no_sections") /\ UNCHANGED <<sec_todo, sec_i>>
          ELSE IF FilterSections(sec_names, section_arg) = <<>>
          THEN Abort("section_not_found") /\ UNCHANGED <<sec_todo, sec_i>>
          ELSE /\ sec_todo' = FilterSections(sec_names, section_arg)
               /\ sec_i' = 1
               /\ run_pc' = "section"
               /\ UNCHANGED <<fatal, exit_status>>
    /\ UNCHANGED <<nb_found, sec_names, section_arg, listed_pages, dispatched,
                   failed_count>>
    /\ UNCHANGED restOfRun

\* for section in sections: the section's directory and its images directory
StartSection ==
    /\ run_pc = "section"
    /\ \E res \in MkdirResults :
          IF res = "ok"
          THEN run_pc' = "pages" /\ UNCHANGED <<fatal, exit_status>>
          ELSE Abort("mkdir")
    /\ UNCHANGED <<nb_found, sec_names, section_arg, sec_todo, sec_i, listed_pages,
                   dispatched, failed_count>>
    /\ UNCHANGED restOfRun

\* pages = self.client.get_pages(section["id"])
ListSectionPages ==
    /\ run_pc = "pages"
    /\ \E res \in CallResults :
          IF res # "ok"
          THEN Abort(res) /\ UNCHANGED listed_pages
          ELSE /\ listed_pages' \in 0 .. MaxSectionPages
               /\ run_pc' = "batch"
               /\ UNCHANGED <<fatal, exit_status>>
    /\ UNCHANGED <<nb_found, sec_names, section_arg, sec_todo, sec_i, dispatched,
                   failed_count>>
    /\ UNCHANGED restOfRun

\* collect_pages, the executor with every task submitted, the loop over the
\* futures with k of them raising, the section's summary.
ConvertSection ==
    /\ run_pc = "batch"
    /\ dispatched' = Append(dispatched, listed_pages)
    /\ \E k \in 0 .. listed_pages :
          /\ failed_count' = Append(failed_count, k)
          /\ IF AfterPageFailures(k) = "abort"
             THEN Abort("page_failed") /\ UNCHANGED sec_i
             ELSE /\ sec_i' = sec_i + 1
                  /\ run_pc' = IF sec_i < Len(sec_todo) THEN "section" ELSE "complete"
                  /\ UNCHANGED <<fatal, exit_status>>
    /\ UNCHANGED <<nb_found, sec_names, section_arg, sec_todo, listed_pages>>
    /\ UNCHANGED restOfRun

\* click.echo("All conversions completed successfully!"); download returns
Complete ==
    /\ run_pc = "complete"
    /\ exit_status' = "success"
    /\ run_pc' = "exit"
    /\ UNCHANGED <<nb_found, sec_names, section_arg, sec_todo, sec_i, listed_pages,
                   dispatched, failed_count, fatal>>
    /\ UNCHANGED restOfRun

InitRun ==
    /\ run_pc = "mkdir"
    /\ nb_found \in BOOLEAN
    /\ \E n \in 0 .. MaxSections : sec_names \in [1 .. n -> SectionNames]
    /\ section_arg \in SectionNames \cup {"none"}
    /\ sec_todo = <<>>
    /\ sec_i = 0
    /\ listed_pages = 0
    /\ dispatched = <<>>
    /\ failed_count = <<>>
    /\ fatal = "none"
    /\ exit_status = "none"
    /\ TreeIdle
    /\ MdIdle
    /\ JobIdle
    /\ PoolIdle
    /\ ImagesIdle
    /\ ReqIdle
    /\ PagingIdle
    /\ RefreshIdle
    /\ SanIdle
    /\ HdrIdle

RunNext ==
    \/ MakeBaseDir
    \/ FindNotebook
    \/ GetSections
    \/ StartSection
    \/ ListSectionPages
    \/ ConvertSection
    \/ Complete

SpecRun == InitRun /\ [][RunNext]_vars

-----------------------------------------------------------------------------
(* Claims about the command (SpecRun) *)

\* The fatal errors the claim names: credential acquisition failure, named
\* notebook or section not found, a listing request failing.
NamedFatal == {"credential", "notebook_not_found", "section_not_found", "request"}

\* The command ends as a success exactly when no exception left
\* download_and_convert; then every section of the filtered list had all its
\* listed pages dispatched, however many of them failed.  After an abort no
\* section beyond the current one has had a task dispatched.
ExitRules ==
    /\ run_pc = "exit" => exit_status \in {"success", "aborted"}
    /\ exit_status = "aborted" <=> fatal # "none"
    /\ exit_status = "success" =>
          /\ sec_todo = FilterSections(sec_names, section_arg)
          /\ Len(dispatched) = Len(sec_todo)
          /\ Len(failed_count) = Len(sec_todo)
    /\ Len(dispatched) <= Len(sec_todo)
    /\ exit_status = "aborted" => Len(dispatched) < sec_i \/ sec_todo = <<>>
    /\ \A i \in 1 .. Len(failed_count) : failed_count[i] <= dispatched[i]

\* C16 as stated: the command aborts exactly for the named fatal errors.
C16_ExitSemantics_Original ==
    /\ ExitRules
    /\ fatal # "none" => fatal \in NamedFatal

\* C16: page failures never abort the command; it aborts exactly when an
\* exception leaves download_and_convert, which is for the named fatal
\* errors, for a notebook without sections, and for an output directory that
\* cannot be created.
C16_ExitSemantics ==
    /\ ExitRules
    /\ fatal # "none" => fatal \in NamedFatal \cup {"no_sections", "mkdir"}

C16_Witness ==
    /\ exit_status = "success"
    /\ Len(sec_todo) = 2
    /\ dispatched = <<2, 2>>
    /\ failed_count = <<2, 1>>

\* The downloads of task t that have been named.
DownloadsOf(t) == {x \in assigned : x.task = t}

\* C20: whichever of a page's image downloads fail, download_image raises
\* nothing: the element of a failed download keeps its source and its data
\* attributes, the element of every other download refers to the local file
\* and has lost its data attributes, every image of the page is gone through,
\* and the page is written unless its own fetch or write raised.
C20_ImageFailureIsolation ==
    \A t \in Tasks :
        /\ \A x \in DownloadsOf(t) :
              x.index < img_i[t] =>
                  LET el == img_el[t][x.index]
                  IN  IF x.name \in DOMAIN image_files
                      THEN el = RewrittenImg(PagePlan(all_tasks[t]).is_child_page, x.name)
                      ELSE el = OriginalImg(page_imgs[t][x.index])
        /\ tstep[t] \in {"write", "done"} /\ terr[t] # "fetch" =>
              Cardinality(DownloadsOf(t)) = Len(page_imgs[t])
        /\ terr[t] \in {"none", "fetch", "write"}
        /\ tstep[t] = "done" /\ terr[t] = "none" => tstate[t] = "written"

C20_Witness ==
    /\ opc = "summary"
    /\ tstate[1] = "written"
    /\ Len(page_imgs[1]) = 2
    /\ img_el[1][1] = OriginalImg(page_imgs[1][1])
    /\ img_el[1][2].local
    /\ DOMAIN image_files = {img_el[1][2].src}

-----------------------------------------------------------------------------
(* The image references of nested pages *)

\* A section of n pages titled P1, P2, ... with the levels lv (the i-th page
\* at level i at most: orphans included, deeper orphans behave alike); the
\* page listed last has one image.
RefsListing(lv) ==
    [i \in 1 .. Len(lv) |->
        [id |-> i, order |-> i, level |-> lv[i], title |-> <<"P", DigitChars[i]>>]]

RefsImages(n) ==
    [r \in 1 .. n |-> IF r = n THEN <<"https://graph.microsoft.com/a.png">> ELSE <<>>]

InitRefs ==
    \E n \in 1 .. MaxPages :
        \E lv \in [1 .. n -> Levels] :
            /\ \A i \in 1 .. n : lv[i] <= i
            /\ PoolStart(RefsListing(lv), RefsImages(n))

SpecRefs == InitRefs /\ [][ImagesNext]_vars

-----------------------------------------------------------------------------
(* Claims about the image references (SpecRefs) *)

\* The file an img element's src denotes for a reader of the Markdown file
\* in md_dir: "images/<name>", after one step up for "../images/<name>".
ResolveRef(md_dir, el) ==
    [dir |-> Append(IF el.up THEN ParentPath(md_dir) ELSE md_dir,
                    <<"i", "m", "a", "g", "e", "s">>),
     file |-> el.src]

\* C22: for every written page, at the top level or nested at any depth, and
\* every image of it that was downloaded, the src of the element, resolved
\* from the directory of the page's Markdown file, is the file stored in the
\* section's images directory; the src is images/<name> for a top-level page
\* and ../images/<name> for a nested one.
C22_ImageReferenceResolution ==
    \A t \in Tasks : tstate[t] = "written" =>
        \A i \in DOMAIN img_el[t] : img_el[t][i].local =>
            LET target == ResolveRef(ParentPath(md_path[t]), img_el[t][i])
            IN  /\ target.dir = ImagesDir
                /\ target.file \in DOMAIN image_files
                /\ img_el[t][i].up <=> (ParentRefOf(all_tasks[t].ref) # 0)

C22_Witness ==
    /\ opc = "summary"
    /\ \E t, u, v \in Tasks :
          /\ ParentRefOf(all_tasks[t].ref) = 0
          /\ ParentRefOf(all_tasks[u].ref) = all_tasks[t].ref
          /\ ParentRefOf(all_tasks[v].ref) = all_tasks[u].ref
          /\ tstate[v] = "written"
          /\ Len(img_el[v]) = 1
          /\ img_el[v][1].local /\ img_el[v][1].up
          /\ ResolveRef(ParentPath(md_path[v]), img_el[v][1]).dir = ImagesDir

-----------------------------------------------------------------------------
(* The clean-up of the rendered Markdown *)

MaxText == 5

\* The characters of the rendered text: a space, a letter, a line break.
MdChars == {" ", "a", "\n"}

IsSpace(c) == c = " "

\* str.lstrip, str.rstrip, str.strip
RECURSIVE lstrip(_)
lstrip(line) ==
    IF line # <<>> /\ IsSpace(Head(line)) THEN lstrip(Tail(line)) ELSE line

RECURSIVE rstrip(_)
rstrip(line) ==
    IF line # <<>> /\ IsSpace(line[Len(line)])
    THEN rstrip(SubSeq(line, 1, Len(line) - 1))
    ELSE line

strip(line) == lstrip(rstrip(line))

\* str.splitlines: the lines without their breaks; a break at the very end
\* opens no further line.
RECURSIVE splitlines(_)
splitlines(text) ==
    LET breaks == IndexesOf(text, "\n")
    IN  IF text = <<>> THEN <<>>
        ELSE IF breaks = {} THEN <<text>>
        ELSE LET b == CHOOSE i \in breaks : \A j \in breaks : i <= j
             IN  <<SubSeq(text, 1, b - 1)>> \o splitlines(SubSeq(text, b + 1, Len(text)))

\* '\n'.join(lines)
RECURSIVE join(_)
join(lines) ==
    IF lines = <<>> THEN <<>>
    ELSE IF Len(lines) = 1 THEN lines[1]
    ELSE lines[1] \o <<"\n">> \o join(Tail(lines))

\* The for loop over lines: cleaned and prev_blank after the first k lines.
RECURSIVE CleanedUpTo(_, _)
CleanedUpTo(lines, k) ==
    IF k = 0 THEN [cleaned |-> <<>>, prev_blank |-> FALSE]
    ELSE LET before == CleanedUpTo(lines, k - 1)
             line == lines[k]
         IN  IF line = <<>>
             THEN [cleaned |-> IF ~before.prev_blank THEN Append(before.cleaned, <<>>)
                               ELSE before.cleaned,
                   prev_blank |-> TRUE]
             ELSE [cleaned |-> Append(before.cleaned, line), prev_blank |-> FALSE]

\* while cleaned and cleaned[0] == '': cleaned.pop(0)
RECURSIVE PopLeadingBlank(_)
PopLeadingBlank(cleaned) ==
    IF cleaned # <<>> /\ cleaned[1] = <<>> THEN PopLeadingBlank(Tail(cleaned)) ELSE cleaned

\* while cleaned and cleaned[-1] == '': cleaned.pop()
RECURSIVE PopTrailingBlank(_)
PopTrailingBlank(cleaned) ==
    IF cleaned # <<>> /\ cleaned[Len(cleaned)] = <<>>
    THEN PopTrailingBlank(SubSeq(cleaned, 1, Len(cleaned) - 1))
    ELSE cleaned

\* line.strip() of the list comprehension
StripLine(line) == strip(line)

\* "Clean up the markdown" of convert_page_to_markdown.
CleanUp(markdown) ==
    LET split == splitlines(markdown)
        lines == [i \in 1 .. Len(split) |-> StripLine(split[i])]
        cleaned == CleanedUpTo(lines, Len(lines)).cleaned
    IN  join(PopTrailingBlank(PopLeadingBlank(cleaned)))

CleanMarkdown ==
    /\ md_pc = 0
    /\ md_out' = CleanUp(md_in)
    /\ md_pc' = 1
    /\ UNCHANGED <<md_in, md_again>>
    /\ UNCHANGED restOfMd

CleanAgain ==
    /\ md_pc = 1
    /\ md_again' = CleanUp(md_out)
    /\ md_pc' = 2
    /\ UNCHANGED <<md_in, md_out>>
    /\ UNCHANGED restOfMd

InitMd ==
    /\ \E n \in 0 .. MaxText : md_in \in [1 .. n -> MdChars]
    /\ md_out = <<>>
    /\ md_again = <<>>
    /\ md_pc = 0
    /\ TreeIdle
    /\ JobIdle
    /\ PoolIdle
    /\ ImagesIdle
    /\ ReqIdle
    /\ PagingIdle
    /\ RefreshIdle
    /\ SanIdle
    /\ HdrIdle
    /\ RunIdle

MdNext ==
    \/ CleanMarkdown
    \/ CleanAgain

SpecMd == InitMd /\ [][MdNext]_vars

-----------------------------------------------------------------------------
(* Claims about the clean-up (SpecMd) *)

NonBlankLine(line) == line # <<>>

\* The lines of a text without their trailing whitespace.
TrailingTrimmed(text) ==
    LET split == splitlines(text) IN [i \in 1 .. Len(split) |-> rstrip(split[i])]

\* The runs of blank lines that have a non-blank line before and after them.
InnerBlankRuns(lines) ==
    {i \in 2 .. Len(lines) :
        /\ lines[i] = <<>>
        /\ lines[i - 1] # <<>>
        /\ \E j \in (i + 1) .. Len(lines) : lines[j] # <<>>}

\* (i) the non-blank lines are those of the input without their trailing
\* whitespace, leading whitespace kept, in order.
NonBlankLinesKept ==
    SelectSeq(splitlines(md_out), NonBlankLine)
        = SelectSeq(TrailingTrimmed(md_in), NonBlankLine)

\* (ii) every run of blank lines between two non-blank lines is one blank line.
BlankRunsCollapsed ==
    LET out == splitlines(md_out)
    IN  /\ \A i \in 1 .. Len(out) - 1 : ~(out[i] = <<>> /\ out[i + 1] = <<>>)
        /\ Cardinality(InnerBlankRuns(out)) = Cardinality(InnerBlankRuns(TrailingTrimmed(md_in)))

\* (iii) no blank line at the start or at the end.
NoOuterBlank ==
    LET out == splitlines(md_out)
    IN  out # <<>> => (out[1] # <<>> /\ out[Len(out)] # <<>>)

\* C23: the clean-up keeps every non-blank line with only its trailing
\* whitespace removed, in order, leaves one blank line for every run of blank
\* lines, leaves none at the start or the end, and changes nothing when
\* applied to its own output.
C23_WhitespaceCanonicalization ==
    /\ md_pc >= 1 => (NonBlankLinesKept /\ BlankRunsCollapsed /\ NoOuterBlank)
    /\ md_pc = 2 => md_again = md_out

-----------------------------------------------------------------------------
(* Claims about the pages of a listing and their tasks (SpecTree) *)

\* The places of the forest that hold ref: an index of root_pages or a parent
\* and an index of its children.
PlacesOf(ref) ==
    {<<0, n>> : n \in {i \in 1 .. Len(root_pages) : root_pages[i] = ref}}
        \cup UNION {{<<p, n>> : n \in {i \in 1 .. Len(children[p]) : children[p][i] = ref}} :
                        p \in DOMAIN children}

\* The task list collect_pages makes of the forest get_pages returned.
TasksOfForest == CollectAll(all_pages, children, root_pages)

\* C25: every processed page is at exactly one place of the forest, a root
\* or a child of one page processed before it, a page not yet processed is at
\* none; the pre-order task list of the returned forest has exactly one task
\* for every listed page, and total_pages is the number of listed pages.
C25_PageConservation ==
    /\ Building =>
          /\ \A k \in Done : Cardinality(PlacesOf(RefAt(k))) = 1
          /\ \A k \in (1 .. Len(all_pages)) \ Done : PlacesOf(RefAt(k)) = {}
          /\ \A k \in Done : \A p \in 1 .. Len(all_pages) :
                IsChildOf(RefAt(k), RefAt(p)) => p < k
    /\ bpc \in {"built", "empty"} =>
          /\ Len(TasksOfForest) = Len(all_pages)
          /\ \A k \in 1 .. Len(all_pages) :
                Cardinality({t \in 1 .. Len(TasksOfForest) : TasksOfForest[t].ref = RefAt(k)}) = 1
          /\ TotalPages(children, root_pages) = Len(all_pages)

C25_Witness ==
    /\ bpc = "built"
    /\ Len(all_pages) = 3
    /\ \E i, j \in Done : i # j /\ all_pages[i].id = all_pages[j].id
    /\ \E k \in Done : IsRoot(RefAt(k)) /\ LevelAt(k) > 0
    /\ \E p, k \in Done : IsChildOf(RefAt(k), RefAt(p))
    /\ Len(TasksOfForest) = 3
    /\ TotalPages(children, root_pages) = 3

====
